---- MODULE Spec2Model ----
(***************************************************************************)
(* Vectorized CFR engine of game-theory-rs (src/src/cfr.rs) and its        *)
(* drivers (src/src/kuhn.rs, src/src/push_fold.rs).                        *)
(*                                                                         *)
(* f64 values are modelled as rationals extended with NaN and the two      *)
(* infinities, so that 0/0 and x/0 behave as IEEE division does.  A run is *)
(* made in one of two arithmetics: "exact", where +, * and / are those of  *)
(* the rationals, and "f64", where each result is rounded to the nearest   *)
(* value with a 53-bit significand, ties to even.  The exponent range and  *)
(* the sign of zero are not modelled.  Numerators and denominators are     *)
(* arbitrary-precision naturals (little-endian limbs in base 2^15),        *)
(* because EPSILON = 1e-8 makes them outgrow machine integers after one    *)
(* strategy update.                                                        *)
(*                                                                         *)
(* The operators with a large body are reached through Eval, one recursive *)
(* operator with an arm per operator: NMul(a, b) is Eval("NMul", <<a, b>>) *)
(* and the arm "NMul" of Eval is its definition.  Eval evaluates the       *)
(* arguments before the body, as a Rust call does.                         *)
(***************************************************************************)
EXTENDS Integers, Sequences, FiniteSets, TLC

\* the arithmetic of the run: "exact" or "f64"
VARIABLE arith

RECURSIVE Eval(_, _)

\* naturals: product, greatest common divisor, quotient
NMul(a, b) == Eval("NMul", <<a, b>>)
NGcd(a, b) == Eval("NGcd", <<a, b>>)
NDiv(a, b) == Eval("NDiv", <<a, b>>)

\* f64: the value nearest to a non-zero rational, x + y, x * y, x / y, x < y
F64(x)     == Eval("F64", <<x>>)
RAdd(x, y) == Eval("RAdd", <<x, y>>)
RMul(x, y) == Eval("RMul", <<x, y>>)
RDiv(x, y) == Eval("RDiv", <<x, y>>)
RLt(x, y)  == Eval("RLt", <<x, y>>)

\* Array::sum
VSum(v) == Eval("VSum", <<v>>)

\* ActionNode::infoset_evs, ActionNode::current_regret and
\* ActionNode::regret_match of node n of the tree ns, and a faulty
\* current_regret that leaves the sign of the node out
infoset_evs(n, evs, sp) == Eval("infoset_evs", <<n, evs, sp>>)
current_regret_unsigned(ns, n) == Eval("current_regret", <<ns, [n EXCEPT !.sign = 1]>>)
current_regret(ns, n)   == Eval("current_regret", <<ns, n>>)
regret_match(n)         == Eval("regret_match", <<n>>)

\* Node::update_probabilities, Node::update_ev, Node::update_strategy called
\* on node id of the tree ns: the tree the call leaves behind
update_probabilities(ns, id) == Eval("update_probabilities", <<ns, id>>)
update_ev(ns, id)            == Eval("update_ev", <<ns, id>>)
update_strategy(ns, id)      == Eval("update_strategy", <<ns, id>>)

\* one step of a pass at node id of the tree ns, of which the step sees the
\* nodes it reads: the node it leaves behind
pass_step(pass, kind, ns, id) == Eval("pass_step", <<pass, kind, ns, id>>)

\* the trees of the drivers, and the trees regret_match is applied to on its
\* own
Trees       == Eval("Trees", << >>)
RegretTrees == Eval("RegretTrees", << >>)

(***************************************************************************)
(* Arbitrary-precision naturals                                            *)
(***************************************************************************)
BASE == 32768

Min(x, y) == IF x < y THEN x ELSE y

Max(x, y) == IF x > y THEN x ELSE y

\* a sequence given as a function over 1..n, evaluated once
Vec(f) == f \o << >>

NLimb(a, i) == IF i <= Len(a) THEN a[i] ELSE 0

\* a without its most significant zero limbs
NTrim(a) ==
  IF \A i \in 1..Len(a) : a[i] = 0 THEN << >>
  ELSE SubSeq(a, 1, CHOOSE i \in 1..Len(a) :
                      a[i] # 0 /\ \A k \in (i + 1)..Len(a) : a[k] = 0)

\* the natural n < 2^31
FromInt(n) == NTrim(<<n % BASE, (n \div BASE) % BASE, n \div (BASE * BASE)>>)

\* value of a natural of at most two limbs
ToInt(a) == NLimb(a, 1) + NLimb(a, 2) * BASE

\* -1, 0 or 1 as a < b, a = b, a > b
NCmp(a, b) ==
  CASE Len(a) > Len(b) -> 1
    [] Len(a) < Len(b) -> -1
    [] a = b -> 0
    [] OTHER ->
         LET top == CHOOSE i \in 1..Len(a) :
                      a[i] # b[i] /\ \A k \in (i + 1)..Len(a) : a[k] = b[k]
         IN  IF a[top] > b[top] THEN 1 ELSE -1

\* a + b: the carry into limb i comes from the nearest lower limb whose sum
\* is not BASE - 1
NAdd(a, b) ==
  LET n == Max(Len(a), Len(b)) + 1
      s == Vec([i \in 1..n |-> NLimb(a, i) + NLimb(b, i)])
      carry(i) == \E j \in 1..(i - 1) :
                    s[j] >= BASE /\ \A k \in (j + 1)..(i - 1) : s[k] = BASE - 1
  IN  NTrim(Vec([i \in 1..n |-> (s[i] + (IF carry(i) THEN 1 ELSE 0)) % BASE]))

\* a - b for a >= b: the borrow into limb i comes from the nearest lower limb
\* whose difference is not 0
NSub(a, b) ==
  LET d == Vec([i \in 1..Len(a) |-> a[i] - NLimb(b, i)])
      borrow(i) == \E j \in 1..(i - 1) :
                     d[j] < 0 /\ \A k \in (j + 1)..(i - 1) : d[k] = 0
  IN  NTrim(Vec([i \in 1..Len(a) |->
              (d[i] - (IF borrow(i) THEN 1 ELSE 0) + BASE) % BASE]))

\* a * k for a single limb k
NMulSmall(a, k) ==
  IF k = 0 \/ a = << >> THEN << >>
  ELSE NAdd(Vec([i \in 1..Len(a) |-> (a[i] * k) % BASE]),
            <<0>> \o Vec([i \in 1..Len(a) |-> (a[i] * k) \div BASE]))

\* a * BASE^k
NShiftLimbs(a, k) == IF a = << >> THEN a ELSE Vec([i \in 1..k |-> 0]) \o a

\* number of trailing zero bits of a non-zero limb
TZ(x) == CHOOSE k \in 0..14 : x % (2^k) = 0 /\ x % (2^(k + 1)) # 0

\* a \div 2^k for k < 15
NShr(a, k) ==
  NTrim(Vec([i \in 1..Len(a) |->
          (a[i] \div (2^k)) + (NLimb(a, i + 1) % (2^k)) * (2^(15 - k))]))

\* index of the least significant non-zero limb of a non-zero natural
NLow(a) == CHOOSE i \in 1..Len(a) : a[i] # 0 /\ \A k \in 1..(i - 1) : a[k] = 0

\* a non-zero natural with its factors of two removed
NOddPart(a) ==
  IF a[1] % 2 = 1 THEN a
  ELSE LET t == SubSeq(a, NLow(a), Len(a))
       IN  NShr(t, TZ(t[1]))

\* the exponent of two in a non-zero natural
NV2(a) == 15 * (NLow(a) - 1) + TZ(a[NLow(a)])

\* a \div 2^k
NShrAny(a, k) ==
  IF k \div 15 >= Len(a) THEN << >>
  ELSE NShr(SubSeq(a, (k \div 15) + 1, Len(a)), k % 15)

\* the number of binary digits of a non-zero natural
NBits(a) ==
  15 * (Len(a) - 1)
    + (CHOOSE k \in 1..15 : a[Len(a)] < 2^k /\ a[Len(a)] >= 2^(k - 1))

\* a * 2^k
NShl(a, k) == NShiftLimbs(NMulSmall(a, 2^(k % 15)), k \div 15)

\* the quotient r \div b when it is below BASE, for b with its top limb at
\* least BASE / 2: the leading limbs overestimate it by at most two
QDigit(r, b) ==
  IF NCmp(r, b) < 0 THEN 0
  ELSE LET n  == Len(b)
           R  == IF Len(r) > n THEN r[n + 1] * BASE + r[n] ELSE r[n]
           qh == Min(BASE - 1, R \div b[n])
       IN  CASE NCmp(NMulSmall(b, qh), r) <= 0 -> qh
             [] NCmp(NMulSmall(b, qh - 1), r) <= 0 -> qh - 1
             [] OTHER -> qh - 2

(***************************************************************************)
(* f64 as extended rationals: [sg, num, den] with sg the sign, num/den in  *)
(* lowest terms; den = << >> marks NaN (sg = 0) and the infinities.        *)
(***************************************************************************)
NaN    == [sg |-> 0, num |-> << >>, den |-> << >>]
PosInf == [sg |-> 1, num |-> <<1>>, den |-> << >>]
NegInf == [sg |-> -1, num |-> <<1>>, den |-> << >>]
Zero   == [sg |-> 0, num |-> << >>, den |-> <<1>>]
One    == [sg |-> 1, num |-> <<1>>, den |-> <<1>>]

IsNaN(x)    == x.den = << >> /\ x.sg = 0
IsInf(x)    == x.den = << >> /\ x.sg # 0
IsFinite(x) == x.den # << >>
Inf(s)      == IF s > 0 THEN PosInf ELSE NegInf

\* the result of an operation of f64 on finite values, whose exact value is x
Fl(x) == IF arith = "f64" /\ x.sg # 0 THEN F64(x) ELSE x

\* the rational s * n / d in lowest terms (d # 0)
RMake(s, n, d) ==
  IF n = << >> \/ s = 0 THEN Zero
  ELSE LET g == NGcd(n, d)
       IN  CASE Len(g) >= 0 -> [sg |-> s, num |-> NDiv(n, g), den |-> NDiv(d, g)]

\* the f64 p / q of two machine integers, q > 0
Q(p, q) == Fl(RMake(IF p > 0 THEN 1 ELSE IF p < 0 THEN -1 ELSE 0,
                    FromInt(IF p < 0 THEN -p ELSE p), FromInt(q)))

RNeg(x) == [x EXCEPT !.sg = -x.sg]

RSub(x, y) == RAdd(x, RNeg(y))

\* x == y of f64 on values in lowest terms; NaN equals nothing
REq(x, y) == ~IsNaN(x) /\ x = y

RLe(x, y) == RLt(x, y) \/ REq(x, y)

\* usize as f64
RNat(k) == IF k = 0 THEN Zero ELSE [sg |-> 1, num |-> FromInt(k), den |-> <<1>>]

\* x == 0. of f64
RIsZero(x) == IsFinite(x) /\ x.sg = 0

\* signed sum s1*n1 + s2*n2 of non-zero terms as <<sign, magnitude>>
SAdd(s1, n1, s2, n2) ==
  IF s1 = s2 THEN <<s1, NAdd(n1, n2)>>
  ELSE LET c == NCmp(n1, n2)
       IN  CASE c = 0 -> <<0, << >> >>
             [] c > 0 -> <<s1, NSub(n1, n2)>>
             [] OTHER -> <<s2, NSub(n2, n1)>>

\* the sum of two non-zero finite values over the least common denominator
RAddFinite(x, y) ==
  LET g  == NGcd(x.den, y.den)
      dx == NDiv(x.den, g)
      dy == NDiv(y.den, g)
      nx == NMul(x.num, dy)
      ny == NMul(y.num, dx)
      t  == SAdd(x.sg, nx, y.sg, ny)
      g2 == NGcd(t[2], g)
      dd == NMul(dx, dy)
      gg == NDiv(g, g2)
  IN  CASE Len(<<g, dx, dy, nx, ny, t, g2, dd, gg>>) >= 0 ->
             IF t[1] = 0 THEN Zero
             ELSE [sg |-> t[1], num |-> NDiv(t[2], g2), den |-> NMul(dd, gg)]

\* the product of two non-zero finite values, cancelling across the factors
RMulFinite(x, y) ==
  LET g1 == NGcd(x.num, y.den)
      g2 == NGcd(y.num, x.den)
      xn == NDiv(x.num, g1)
      yn == NDiv(y.num, g2)
      xd == NDiv(x.den, g2)
      yd == NDiv(y.den, g1)
  IN  CASE Len(<<g1, g2, xn, yn, xd, yd>>) >= 0 ->
             [sg |-> x.sg * y.sg, num |-> NMul(xn, yn), den |-> NMul(xd, yd)]

(***************************************************************************)
(* Loops.  A loop is run on a record of its variables: Step is one pass    *)
(* through its body, Done its exit test.                                   *)
(***************************************************************************)
Done(s) ==
  CASE s.loop = "gcd"  -> s.a = s.b
    [] s.loop = "igcd" -> s.n = 0
    [] s.loop = "div"  -> s.i = 0
    [] s.loop = "mul"  -> s.i > Len(s.b)
    [] s.loop = "sum"  -> s.i > Len(s.v)

Step(s) ==
  CASE s.loop = "gcd" ->
         \* the binary gcd of two odd naturals
         LET d == IF NCmp(s.a, s.b) > 0 THEN NSub(s.a, s.b) ELSE NSub(s.b, s.a)
         IN  (CASE Len(d) >= 0 ->
                     IF NCmp(s.a, s.b) > 0
                     THEN [s EXCEPT !.a = NOddPart(d)]
                     ELSE [s EXCEPT !.b = NOddPart(d)])
    [] s.loop = "igcd" ->
         \* Euclid's algorithm on machine integers
         [s EXCEPT !.m = s.n, !.n = s.m % s.n]
    [] s.loop = "div" ->
         \* long division, limb i of a brought down to the remainder r
         LET r1 == NTrim(<<s.a[s.i]>> \o s.r)
             d  == QDigit(r1, s.b)
             m  == NMulSmall(s.b, d)
         IN  (CASE Len(<<r1, d, m>>) >= 0 ->
                     [s EXCEPT !.i = s.i - 1,
                               !.q = <<d>> \o s.q,
                               !.r = NSub(r1, m)])
    [] s.loop = "mul" ->
         \* long multiplication, limb i of b
         LET m == NMulSmall(s.a, s.b[s.i])
             t == NShiftLimbs(m, s.i - 1)
         IN  (CASE Len(<<m, t>>) >= 0 ->
                     [s EXCEPT !.i = s.i + 1, !.acc = NAdd(s.acc, t)])
    [] s.loop = "sum" ->
         [s EXCEPT !.i = s.i + 1, !.acc = RAdd(s.acc, s.v[s.i])]

\* up to 16^k steps of the loop, in recursion depth k
RECURSIVE Run(_, _)
Run(s, k) ==
  CASE Done(s) -> s
    [] k = 0 -> Step(s)
    [] OTHER ->
         LET t1  == Run(s, k - 1)
             t2  == Run(t1, k - 1)
             t3  == Run(t2, k - 1)
             t4  == Run(t3, k - 1)
             t5  == Run(t4, k - 1)
             t6  == Run(t5, k - 1)
             t7  == Run(t6, k - 1)
             t8  == Run(t7, k - 1)
             t9  == Run(t8, k - 1)
             t10 == Run(t9, k - 1)
             t11 == Run(t10, k - 1)
             t12 == Run(t11, k - 1)
             t13 == Run(t12, k - 1)
             t14 == Run(t13, k - 1)
             t15 == Run(t14, k - 1)
         IN  CASE Len(<<t1, t2, t3, t4, t5, t6, t7, t8,
                        t9, t10, t11, t12, t13, t14, t15>>) >= 0 -> Run(t15, k - 1)

\* the loop from state s to its exit, which it reaches in at most n steps
Loop(s, n) == Run(s, CHOOSE k \in 0..7 : 16^k >= n /\ \A j \in 0..(k - 1) : 16^j < n)

(***************************************************************************)
(* ndarray vectors (sequences) and matrices (sequences of rows)            *)
(***************************************************************************)
Zeros(n) == Vec([i \in 1..n |-> Zero])

\* two lengths ndarray can broadcast together
Compat(m, n) == m = n \/ m = 1 \/ n = 1

\* the length two broadcast lengths give
BLen(m, n) == IF m = 1 \/ n = m THEN n ELSE m

BAt(v, i) == IF Len(v) = 1 THEN v[1] ELSE v[i]

VAdd(x, y) == Vec([i \in 1..BLen(Len(x), Len(y)) |-> RAdd(BAt(x, i), BAt(y, i))])
VSub(x, y) == Vec([i \in 1..BLen(Len(x), Len(y)) |-> RSub(BAt(x, i), BAt(y, i))])
VMul(x, y) == Vec([i \in 1..BLen(Len(x), Len(y)) |-> RMul(BAt(x, i), BAt(y, i))])
VDiv(x, y) == Vec([i \in 1..BLen(Len(x), Len(y)) |-> RDiv(BAt(x, i), BAt(y, i))])

VScale(x, k) == Vec([i \in 1..Len(x) |-> RMul(x[i], k)])
VShift(x, k) == Vec([i \in 1..Len(x) |-> RAdd(x[i], k)])
VOver(x, k)  == Vec([i \in 1..Len(x) |-> RDiv(x[i], k)])

\* a faulty SafeDenom: the denominators as they are
Denominators(v) == v

\* the match arm `0. => 1., _ => *x` used for every guarded denominator
SafeDenom(v) == Vec([i \in 1..Len(v) |-> IF RIsZero(v[i]) THEN One ELSE v[i]])

\* matrix (A x I) with a vector of length I broadcast over the rows
MAddV(m, v) == Vec([a \in 1..Len(m) |-> VAdd(m[a], v)])
MSubV(m, v) == Vec([a \in 1..Len(m) |-> VSub(m[a], v)])
MMulV(m, v) == Vec([a \in 1..Len(m) |-> VMul(m[a], v)])
MDivV(m, v) == Vec([a \in 1..Len(m) |-> VDiv(m[a], v)])
MAdd(m, k)  == Vec([a \in 1..Len(m) |-> VAdd(m[a], k[a])])
MScale(m, x) == Vec([a \in 1..Len(m) |-> VScale(m[a], x)])
MOver(m, x)  == Vec([a \in 1..Len(m) |-> VOver(m[a], x)])

\* column i of a matrix
Col(m, i) == Vec([a \in 1..Len(m) |-> m[a][i]])

\* the matrix whose columns are cols, with A rows
FromCols(cols, A) == Vec([a \in 1..A |-> Vec([i \in 1..Len(cols) |-> cols[i][a]])])

Cols(m) == IF m = << >> THEN 0 ELSE Len(m[1])

(***************************************************************************)
(* Nodes.  The tree is a map from node ids to node records; a decision     *)
(* node owns the subtrees named by its children.                           *)
(***************************************************************************)
\* a faulty construction: the iteration counter starts at 0
ActionNodeFromZero(name, sp, infosets, A, sign, children) ==
  [kind                |-> "ActionNode",
   name                |-> name,
   state_probabilities |-> sp,
   total_probabilities |-> Zeros(Len(infosets)),
   evs                 |-> Zeros(Len(sp)),
   infosets            |-> infosets,
   strategy            |-> Vec([a \in 1..A |-> Vec([i \in 1..Len(infosets) |-> RDiv(One, RNat(A))])]),
   avg_strategy        |-> Vec([a \in 1..A |-> Vec([i \in 1..Len(infosets) |-> RDiv(One, RNat(A))])]),
   regrets             |-> Vec([a \in 1..A |-> Zeros(Len(infosets))]),
   children            |-> children,
   sign                |-> sign,
   iter_count          |-> 0]

ActionNode(name, sp, infosets, A, sign, children) ==
  [kind                |-> "ActionNode",
   name                |-> name,
   state_probabilities |-> sp,
   total_probabilities |-> Zeros(Len(infosets)),
   evs                 |-> Zeros(Len(sp)),
   infosets            |-> infosets,
   strategy            |-> Vec([a \in 1..A |-> Vec([i \in 1..Len(infosets) |-> RDiv(One, RNat(A))])]),
   avg_strategy        |-> Vec([a \in 1..A |-> Vec([i \in 1..Len(infosets) |-> RDiv(One, RNat(A))])]),
   regrets             |-> Vec([a \in 1..A |-> Zeros(Len(infosets))]),
   children            |-> children,
   sign                |-> sign,
   iter_count          |-> 1]

TerminalNode(name, sp, pay) ==
  [kind                |-> "TerminalNode",
   name                |-> name,
   state_probabilities |-> sp,
   payouts             |-> pay]

IsAction(n) == n.kind = "ActionNode"

\* Node::payouts
payouts(n) == IF IsAction(n) THEN n.evs ELSE n.payouts

SetMax(S) == CHOOSE x \in S : \A y \in S : y <= x

\* the infosets (1-based) that list state index s (0-based, as in the source)
Holding(n, s) ==
  {i \in 1..Len(n.infosets) : \E k \in 1..Len(n.infosets[i]) : n.infosets[i][k] = s}

\* a faulty expand_strategy: every state plays the column of the first
\* information set
expand_first_infoset(n) ==
  Vec([a \in 1..Len(n.children) |->
        Vec([s \in 1..Len(n.state_probabilities) |-> n.strategy[a][1]])])

\* a faulty expand_strategy: the state indices of the infosets taken to
\* count from 1
expand_one_based(n) ==
  Vec([a \in 1..Len(n.children) |->
        Vec([s \in 1..Len(n.state_probabilities) |->
              IF Holding(n, s) = {} THEN Zero
              ELSE n.strategy[a][SetMax(Holding(n, s))]])])

\* ActionNode::expand_strategy: columns are assigned infoset by infoset, so a
\* state listed twice keeps the later infoset's column and an unlisted state
\* keeps the zeros the matrix starts with
expand_strategy(n) ==
  Vec([a \in 1..Len(n.children) |->
        Vec([s \in 1..Len(n.state_probabilities) |->
              IF Holding(n, s - 1) = {} THEN Zero
              ELSE n.strategy[a][SetMax(Holding(n, s - 1))]])])

\* ActionNode::infoset_probabilities
infoset_probabilities(n, sp) ==
  Vec([i \in 1..Len(n.infosets) |->
        VSum(Vec([k \in 1..Len(n.infosets[i]) |-> sp[n.infosets[i][k] + 1]]))])

\* ActionNode::action_evs
action_evs(ns, n) ==
  Vec([a \in 1..Len(n.children) |->
        infoset_evs(n, payouts(ns[n.children[a]]), ns[n.children[a]].state_probabilities)])

EPSILON == Fl([sg |-> 1, num |-> <<1>>, den |-> FromInt(100000000)])

\* a faulty regret_match_column: the smoothed positive parts, not divided by
\* their sum
regret_match_unnormalised(x, A) ==
  LET nonzero_regrets == Vec([a \in 1..Len(x) |-> IF RLt(x[a], Zero) THEN Zero ELSE x[a]])
  IN  IF RIsZero(VSum(nonzero_regrets))
      THEN Vec([a \in 1..Len(nonzero_regrets) |-> RDiv(One, RNat(A))])
      ELSE VShift(nonzero_regrets, EPSILON)

\* a faulty regret_match_column: the positive parts over their sum, without
\* EPSILON
regret_match_unsmoothed(x, A) ==
  LET nonzero_regrets == Vec([a \in 1..Len(x) |-> IF RLt(x[a], Zero) THEN Zero ELSE x[a]])
      total == VSum(nonzero_regrets)
  IN  IF RIsZero(total)
      THEN Vec([a \in 1..Len(nonzero_regrets) |-> RDiv(One, RNat(A))])
      ELSE VOver(nonzero_regrets, total)

\* one column of ActionNode::regret_match, for a node with A children
regret_match_column(x, A) ==
  LET nonzero_regrets == Vec([a \in 1..Len(x) |-> IF RLt(x[a], Zero) THEN Zero ELSE x[a]])
      shifted == VShift(nonzero_regrets, EPSILON)
      total   == VSum(shifted)
  IN  IF Len(<<x, nonzero_regrets>>) >= 0 /\ RIsZero(VSum(nonzero_regrets))
      THEN Vec([a \in 1..Len(nonzero_regrets) |-> RDiv(One, RNat(A))])
      ELSE CASE Len(<<shifted, total>>) >= 0 -> VOver(shifted, total)


\* a faulty TerminalNode::update_ev: the payouts overwritten by the reach
terminal_update_ev_overwriting(ns, id) ==
  [ns EXCEPT ![id].payouts = ns[id].state_probabilities]

\* TerminalNode::update_probabilities, TerminalNode::update_ev and
\* TerminalNode::update_strategy: empty bodies
terminal_update_probabilities(ns, id) == ns
terminal_update_ev(ns, id) == ns
terminal_update_strategy(ns, id) == ns

(***************************************************************************)
(* The three passes.  Each takes the tree and the id of the node it is     *)
(* called on and returns the tree the call leaves behind.  The children    *)
(* own disjoint subtrees, so the parallel iterator is folded in order.     *)
(***************************************************************************)
\* a faulty closure: the child's reach is the sum, not the product, of the
\* node's reach and the row of the expanded strategy
RECURSIVE probabilities_children_added(_, _, _, _)
probabilities_children_added(ns, id, expanded_strategy, a) ==
  IF a > Len(ns[id].children) THEN ns
  ELSE LET c  == ns[id].children[a]
           n1 == [ns EXCEPT ![c].state_probabilities =
                     VAdd(ns[id].state_probabilities, expanded_strategy[a])]
           n2 == update_probabilities(n1, c)
       IN  CASE Len(<<n1, n2>>) >= 0 ->
                  probabilities_children_added(n2, id, expanded_strategy, a + 1)

\* the closure of par_iter_mut in update_probabilities, for children a..
RECURSIVE probabilities_children(_, _, _, _)
probabilities_children(ns, id, expanded_strategy, a) ==
  IF a > Len(ns[id].children) THEN ns
  ELSE LET c  == ns[id].children[a]
           n1 == [ns EXCEPT ![c].state_probabilities =
                     VMul(ns[id].state_probabilities, expanded_strategy[a])]
           n2 == update_probabilities(n1, c)
       IN  CASE Len(<<n1, n2>>) >= 0 ->
                  probabilities_children(n2, id, expanded_strategy, a + 1)

\* a faulty first statement: total_probabilities is set whatever its sum
probabilities_self_resetting(n) ==
  [n EXCEPT !.total_probabilities = infoset_probabilities(n, n.state_probabilities)]

\* the first statement of ActionNode::update_probabilities
probabilities_self(n) ==
  IF RIsZero(VSum(n.total_probabilities))
  THEN [n EXCEPT !.total_probabilities = infoset_probabilities(n, n.state_probabilities)]
  ELSE n

\* the par_iter_mut of update_ev, for children a..
RECURSIVE ev_children(_, _, _)
ev_children(ns, id, a) ==
  IF a > Len(ns[id].children) THEN ns
  ELSE LET n1 == update_ev(ns, ns[id].children[a])
       IN  CASE Len(n1) >= 0 -> ev_children(n1, id, a + 1)

\* the fold of child.payouts() * child.state_probabilities() over children a..
RECURSIVE ev_fold(_, _, _, _)
ev_fold(ns, id, f, a) ==
  IF a > Len(ns[id].children) THEN f
  ELSE LET c  == ns[ns[id].children[a]]
           x  == VMul(payouts(c), c.state_probabilities)
           f1 == VAdd(f, x)
       IN  CASE Len(<<x, f1>>) >= 0 -> ev_fold(ns, id, f1, a + 1)

\* the body of ActionNode::update_ev once its children have returned
ev_self(ns, id) ==
  LET f == ev_fold(ns, id, Zeros(Len(ns[id].state_probabilities)), 1)
  IN  CASE Len(f) >= 0 ->
             [ns[id] EXCEPT !.evs = VDiv(f, SafeDenom(ns[id].state_probabilities))]

\* the par_iter_mut of update_strategy, for children a..
RECURSIVE strategy_children(_, _, _)
strategy_children(ns, id, a) ==
  IF a > Len(ns[id].children) THEN ns
  ELSE LET n1 == update_strategy(ns, ns[id].children[a])
       IN  CASE Len(n1) >= 0 -> strategy_children(n1, id, a + 1)

\* the body of ActionNode::update_strategy before it recurses
strategy_self(ns, n) ==
  LET ip  == infoset_probabilities(n, n.state_probabilities)
      cr  == current_regret(ns, n)
      wr  == MMulV(cr, ip)
      sum == MAdd(n.regrets, wr)
      scl == MScale(sum, RNat(n.iter_count))
      n1  == [n EXCEPT !.regrets = MOver(scl, RAdd(RNat(n.iter_count), One))]
      n2  == [n1 EXCEPT !.strategy = regret_match(n1)]
      old == MMulV(n2.avg_strategy, n2.total_probabilities)
      new == MMulV(n2.strategy, ip)
      num == MAdd(old, new)
      tot == VAdd(n2.total_probabilities, ip)
  IN  CASE Len(<<ip, cr, wr, sum, scl, n1, n2, old, new, num, tot>>) >= 0 ->
             [n2 EXCEPT !.avg_strategy = MDivV(num, tot),
                        !.iter_count = n2.iter_count + 1,
                        !.total_probabilities = tot]

(***************************************************************************)
(* Trees.  A tree is the sequence of its nodes; a node's id is its index   *)
(* and the root is node 1.                                                 *)
(***************************************************************************)
Root == 1

\* the decision node that owns node id, and the index of id among its
\* children
Parent(ns, id) == CHOOSE p \in 1..Len(ns) :
                    IsAction(ns[p]) /\ \E a \in 1..Len(ns[p].children) : ns[p].children[a] = id
ChildIndex(ns, id) == CHOOSE a \in 1..Len(ns[Parent(ns, id)].children) :
                        ns[Parent(ns, id)].children[a] = id

\* the children of node id
Children(ns, id) ==
  IF IsAction(ns[id]) THEN {ns[id].children[a] : a \in 1..Len(ns[id].children)} ELSE {}


\* the vector of the rationals p[i] / q
QV(p, q) == Vec([i \in 1..Len(p) |-> Q(p[i], q)])

\* build_kuhn_tree: states KQ KJ QK QJ JK JQ
KuhnTree ==
  << ActionNode("root", QV(<<1, 1, 1, 1, 1, 1>>, 6),
                << <<0, 1>>, <<2, 3>>, <<4, 5>> >>, 2, 1, <<2, 3>>),
     ActionNode("b", Zeros(6), << <<2, 4>>, <<0, 5>>, <<1, 3>> >>, 2, -1, <<4, 5>>),
     ActionNode("x", Zeros(6), << <<2, 4>>, <<0, 5>>, <<1, 3>> >>, 2, -1, <<6, 7>>),
     TerminalNode("bc", Zeros(6), QV(<<2, 2, -2, 2, -2, -2>>, 1)),
     TerminalNode("bf", Zeros(6), QV(<<1, 1, 1, 1, 1, 1>>, 1)),
     ActionNode("xb", Zeros(6), << <<0, 1>>, <<2, 3>>, <<4, 5>> >>, 2, 1, <<8, 9>>),
     TerminalNode("xx", Zeros(6), QV(<<1, 1, -1, 1, -1, -1>>, 1)),
     TerminalNode("bc", Zeros(6), QV(<<2, 2, -2, 2, -2, -2>>, 1)),
     TerminalNode("bf", Zeros(6), QV(<<-1, -1, -1, -1, -1, -1>>, 1)) >>

\* build_push_fold_tree with two hand classes in place of 169: state i * 2 + j
\* is class i against class j; counts are the matchup counts and equities the
\* flattened equity matrix, equities[j][i] = 1 - equities[i][j]
PushFoldTree(stack_size, ante, sb, counts, equities) ==
  << ActionNode("root", VOver(counts, VSum(counts)),
                << <<0, 1>>, <<2, 3>> >>, 2, 1, <<2, 5>>),
     ActionNode("b", Zeros(4), << <<0, 2>>, <<1, 3>> >>, 2, -1, <<3, 4>>),
     TerminalNode("bc", Zeros(4),
                  VMul(VScale(Vec([i \in 1..4 |-> RAdd(stack_size, ante)]), RNat(2)),
                       VShift(equities, Q(-1, 2)))),
     TerminalNode("bf", Zeros(4), Vec([i \in 1..4 |-> RAdd(One, ante)])),
     TerminalNode("f", Zeros(4), Vec([i \in 1..4 |-> RSub(RNeg(sb), ante)])) >>

\* the tree of tests::test_update_tree, with the root prior and the
\* information sets as parameters
UpdateTree(prior, infosets) ==
  << ActionNode("root", prior, infosets, 3, 1, <<2, 3, 4>>),
     TerminalNode("a", Zeros(3), QV(<<6, 4, 6>>, 2)),
     TerminalNode("b", Zeros(3), QV(<<2, 5, 4>>, 2)),
     TerminalNode("c", Zeros(3), QV(<<8, 4, 4>>, 2)) >>

\* the tree of tests::test_expand_strategy: six states at the root, three at
\* the terminals
ExpandTree ==
  << ActionNode("root", QV(<<1, 1, 1, 1, 1, 1>>, 6),
                << <<0, 1>>, <<2, 3>>, <<4, 5>> >>, 2, 1, <<2, 3>>),
     TerminalNode("a", Zeros(3), QV(<<3, 2, 1>>, 1)),
     TerminalNode("b", Zeros(3), QV(<<1, 2, 3>>, 1)) >>

\* a decision node without actions
NoActionTree == << ActionNode("root", QV(<<1, 1>>, 2), << <<0>>, <<1>> >>, 0, 1, << >>) >>

\* a two-state, two-action decision over terminals, the second action
\* leading to a decision of the other player
StubTree(prior, infosets, pa, pb) ==
  << ActionNode("root", prior, infosets, 2, 1, <<2, 3>>),
     TerminalNode("a", Zeros(2), pa),
     ActionNode("b", Zeros(2), << <<0>>, <<1>> >>, 2, -1, <<4, 5>>),
     TerminalNode("ba", Zeros(2), pb),
     TerminalNode("bb", Zeros(2), QV(<<0, 0>>, 1)) >>

(***************************************************************************)
(* The trees the drivers are run on: the two the programs build, the two   *)
(* the tests build, and variations of them in the prior, the payouts and   *)
(* the information sets.  The node structs are built field by field with   *)
(* no validation, so malformed trees are among them.                       *)
(***************************************************************************)
Singletons == << <<0>>, <<1>>, <<2>> >>
Paired     == << <<0, 1>>, <<2>> >>
Missing    == << <<0>>, <<1>> >>
Repeated   == << <<0, 1>>, <<1, 2>> >>
Outside    == << <<0>>, <<1>>, <<3>> >>

Uniform3 == QV(<<1, 1, 1>>, 3)

UpdatePriors == {Uniform3, QV(<<2, 1, 1>>, 4), QV(<<1, 1, 0>>, 2)}

StubPriors == {QV(<<1, 1>>, 2), QV(<<1, 3>>, 4), QV(<<0, 1>>, 1)}

StubPayouts == {QV(<<1, -1>>, 1), QV(<<0, 2>>, 1)}

WellFormedTrees ==
  {KuhnTree,
   PushFoldTree(Q(10, 1), Q(1, 8), Q(1, 2), QV(<<1, 2, 2, 1>>, 1), QV(<<2, 3, 1, 2>>, 4))}
  \cup {UpdateTree(p, i) : p \in UpdatePriors, i \in {Singletons, Paired}}
  \cup {StubTree(p, i, pa, QV(<<2, -1>>, 1)) :
          p \in StubPriors, i \in {<< <<0>>, <<1>> >>, << <<0, 1>> >>}, pa \in StubPayouts}

MalformedTrees ==
  {ExpandTree, NoActionTree}
  \cup {UpdateTree(Uniform3, i) : i \in {Missing, Repeated, Outside}}

\* the regrets drawn: negative, zero, small and large
RegretValues == {Q(-1, 1), Zero, Q(1, 2), RNat(2^30)}

\* the shapes <<A, I>> of the regrets drawn: A actions, I information sets
RegretShapes == {<<1, 1>>, <<2, 1>>, <<3, 1>>, <<2, 2>>}

\* a decision node of A actions and I singleton information sets over
\* terminals that pay nothing, with regrets m
RegretTree(A, I, m) ==
  <<[ActionNode("root", Zeros(I), Vec([i \in 1..I |-> <<i - 1>>]), A, 1,
                Vec([a \in 1..A |-> a + 1]))
       EXCEPT !.regrets = m]>>
  \o Vec([a \in 1..A |-> TerminalNode("t", Zeros(I), Zeros(I))])

RegretInputs ==
  UNION {{RegretTree(sh[1], sh[2], Vec([a \in 1..sh[1] |-> Vec(f[a])])) :
            f \in [1..sh[1] -> [1..sh[2] -> RegretValues]]} : sh \in RegretShapes}

(***************************************************************************)
(* The operators reached through Eval.                                     *)
(***************************************************************************)
Eval(op, args) ==
  IF Len(args) < 0 THEN args
  ELSE CASE op = "NMul" ->
         \* the product of two naturals
        (LET a == args[1]
             b == args[2]
         IN  CASE a = << >> \/ b = << >> -> << >>
               [] a = <<1>> -> b
               [] b = <<1>> -> a
               [] Len(a) = 1 /\ Len(b) = 1 -> FromInt(a[1] * b[1])
               [] Len(a) >= Len(b) ->
                    Loop([loop |-> "mul", a |-> a, b |-> b, i |-> 1, acc |-> << >>],
                         Len(b)).acc
               [] OTHER ->
                    Loop([loop |-> "mul", a |-> b, b |-> a, i |-> 1, acc |-> << >>],
                         Len(a)).acc)
    [] op = "NGcd" ->
         \* the greatest common divisor of two naturals, gcd(0, b) = b
        (LET a == args[1]
             b == args[2]
         IN  CASE a = << >> -> b
               [] b = << >> -> a
               [] a = <<1>> \/ b = <<1>> -> <<1>>
               [] a = b -> a
               [] Len(a) <= 2 /\ Len(b) <= 2 ->
                    FromInt(Loop([loop |-> "igcd", m |-> ToInt(a), n |-> ToInt(b)], 45).m)
               [] OTHER ->
                    LET oa == NOddPart(a)
                        ob == NOddPart(b)
                        g  == Loop([loop |-> "gcd", a |-> oa, b |-> ob],
                                   15 * (Len(a) + Len(b))).a
                    IN  (CASE Len(<<oa, ob, g>>) >= 0 -> NShl(g, Min(NV2(a), NV2(b)))))
    [] op = "NDiv" ->
         \* the quotient a \div b of two naturals, b # 0; the divisor is scaled
         \* to a top limb of at least BASE / 2 for the digit estimate
        (LET a == args[1]
             b == args[2]
             d  == BASE \div (b[Len(b)] + 1)
             an == NMulSmall(a, d)
             bn == NMulSmall(b, d)
             q  == Loop([loop |-> "div", a |-> an, b |-> bn, i |-> Len(an),
                         q |-> << >>, r |-> << >>], Len(an)).q
         IN  CASE b = <<1>> \/ a = << >> -> a
               [] a = b -> <<1>>
               [] NCmp(a, b) < 0 -> << >>
               [] Len(a) <= 2 -> FromInt(ToInt(a) \div ToInt(b))
               [] OTHER -> (CASE Len(<<an, bn, q>>) >= 0 -> NTrim(q)))
    [] op = "F64" ->
         \* the value m * 2^e nearest to x, m of at most 53 binary digits: the
         \* quotient q of 54 or 55 digits is cut to 53, and rounded up when
         \* what is cut is above one half, or is one half and m is odd
        (LET x    == args[1]
             sh   == 54 - (NBits(x.num) - NBits(x.den))
             n    == IF sh >= 0 THEN NShl(x.num, sh) ELSE x.num
             d    == IF sh >= 0 THEN x.den ELSE NShl(x.den, -sh)
             q    == NDiv(n, d)
             rest == NSub(n, NMul(q, d))
             t    == IF NBits(q) = 55 THEN 2 ELSE 1
             low  == q[1] % (2^t)
             m    == NShr(q, t)
             up   == \/ low > 2^(t - 1)
                     \/ low = 2^(t - 1) /\ (rest # << >> \/ m[1] % 2 = 1)
             m1   == IF up THEN NAdd(m, <<1>>) ELSE m
             e    == t - sh
             v    == Min(NV2(m1), -e)
         IN  CASE Len(<<n, d, q, rest, m1>>) >= 0 ->
                    IF e >= 0
                    THEN [sg |-> x.sg, num |-> NShl(m1, e), den |-> <<1>>]
                    ELSE [sg |-> x.sg, num |-> NShrAny(m1, v), den |-> NShl(<<1>>, -e - v)])
    [] op = "RAdd" ->
         \* x + y of f64
        (LET x == args[1]
             y == args[2]
         IN  CASE IsNaN(x) \/ IsNaN(y) -> NaN
               [] IsInf(x) -> IF IsInf(y) /\ y.sg # x.sg THEN NaN ELSE x
               [] IsInf(y) -> y
               [] x.sg = 0 -> y
               [] y.sg = 0 -> x
               [] OTHER -> Fl(RAddFinite(x, y)))
    [] op = "RMul" ->
         \* x * y of f64
        (LET x == args[1]
             y == args[2]
         IN  CASE IsNaN(x) \/ IsNaN(y) -> NaN
               [] IsInf(x) \/ IsInf(y) ->
                    IF x.sg = 0 \/ y.sg = 0 THEN NaN ELSE Inf(x.sg * y.sg)
               [] x.sg = 0 \/ y.sg = 0 -> Zero
               [] OTHER -> Fl(RMulFinite(x, y)))
    [] op = "RDiv" ->
         \* x / y of f64: 0/0 and inf/inf are NaN, x/0 is an infinity
        (LET x == args[1]
             y == args[2]
         IN  CASE IsNaN(x) \/ IsNaN(y) -> NaN
               [] IsInf(x) ->
                    IF IsInf(y) THEN NaN ELSE Inf(IF y.sg < 0 THEN -x.sg ELSE x.sg)
               [] IsInf(y) -> Zero
               [] y.sg = 0 -> IF x.sg = 0 THEN NaN ELSE Inf(x.sg)
               [] x.sg = 0 -> Zero
               [] OTHER -> Fl(RMulFinite(x, [sg |-> y.sg, num |-> y.den, den |-> y.num])))
    [] op = "RLt" ->
         \* x < y of f64; false when either is NaN
        (LET x == args[1]
             y == args[2]
         IN  CASE IsNaN(x) \/ IsNaN(y) -> FALSE
               [] IsInf(x) -> x.sg < 0 /\ y # x
               [] IsInf(y) -> y.sg > 0
               [] x.sg # y.sg -> x.sg < y.sg
               [] x.sg = 0 -> FALSE
               [] OTHER ->
                    LET l == NMul(x.num, y.den)
                        r == NMul(y.num, x.den)
                    IN  (CASE Len(<<l, r>>) >= 0 ->
                                IF x.sg > 0 THEN NCmp(l, r) < 0 ELSE NCmp(l, r) > 0))
    [] op = "VSum" ->
         \* Array::sum and Iterator::sum
        (LET v == args[1]
         IN  IF v = << >> THEN Zero
             ELSE Loop([loop |-> "sum", v |-> v, i |-> 2, acc |-> v[1]], Len(v)).acc)
    [] op = "infoset_evs" ->
         \* ActionNode::infoset_evs
        (LET n   == args[1]
             evs == args[2]
             sp  == args[3]
             sums == Vec([i \in 1..Len(n.infosets) |->
                           VSum(Vec([k \in 1..Len(n.infosets[i]) |->
                                      RMul(evs[n.infosets[i][k] + 1],
                                           sp[n.infosets[i][k] + 1])]))])
             denominators == SafeDenom(infoset_probabilities(n, sp))
         IN  CASE Len(<<sums, denominators>>) >= 0 -> VDiv(sums, denominators))
    [] op = "current_regret" ->
         \* ActionNode::current_regret
        (LET ns == args[1]
             n  == args[2]
             action == action_evs(ns, n)
             node   == infoset_evs(n, n.evs, n.state_probabilities)
             diff   == MSubV(action, node)
         IN  CASE Len(<<action, node, diff>>) >= 0 ->
                    MScale(diff, IF n.sign < 0 THEN RNeg(RNat(-n.sign)) ELSE RNat(n.sign)))
    [] op = "regret_match" ->
         \* ActionNode::regret_match
        (LET n == args[1]
             columns == Vec([i \in 1..Cols(n.regrets) |->
                              regret_match_column(Col(n.regrets, i), Len(n.children))])
         IN  CASE Len(columns) >= 0 -> FromCols(columns, Len(n.children)))
    [] op = "update_probabilities" ->
         \* Node::update_probabilities, dispatched on the kind of node
        (LET ns == args[1]
             id == args[2]
             n  == ns[id]
             n1 == probabilities_self(n)
             expanded_strategy == expand_strategy(n1)
         IN  IF ~IsAction(n) THEN terminal_update_probabilities(ns, id)
             ELSE CASE Len(<<n1, expanded_strategy>>) >= 0 ->
                    probabilities_children([ns EXCEPT ![id] = n1], id, expanded_strategy, 1))
    [] op = "update_ev" ->
         \* Node::update_ev, dispatched on the kind of node
        (LET ns == args[1]
             id == args[2]
             n1 == ev_children(ns, id, 1)
         IN  IF ~IsAction(ns[id]) THEN terminal_update_ev(ns, id)
             ELSE CASE Len(n1) >= 0 -> [n1 EXCEPT ![id] = ev_self(n1, id)])
    [] op = "update_strategy" ->
         \* Node::update_strategy, dispatched on the kind of node
        (LET ns == args[1]
             id == args[2]
             n1 == [ns EXCEPT ![id] = strategy_self(ns, ns[id])]
         IN  IF ~IsAction(ns[id]) THEN terminal_update_strategy(ns, id)
             ELSE CASE Len(n1) >= 0 -> strategy_children(n1, id, 1))
    [] op = "pass_step" ->
         \* the statements of the three passes that write node id: for
         \* update_probabilities the first statement on entry and the
         \* set_state_probabilities of the parent's closure, for update_ev the
         \* statements after the children have returned, for update_strategy
         \* the statements before the children are called
        (LET pass == args[1]
             kind == args[2]
             ns   == args[3]
             id   == args[4]
         IN  CASE pass = "update_probabilities" /\ kind = "set" ->
                    [ns[id] EXCEPT !.state_probabilities =
                       VMul(ns[Parent(ns, id)].state_probabilities,
                            expand_strategy(ns[Parent(ns, id)])[ChildIndex(ns, id)])]
               [] ~IsAction(ns[id]) -> ns[id]
               [] pass = "update_probabilities" /\ kind = "enter" -> probabilities_self(ns[id])
               [] pass = "update_ev" /\ kind = "return" -> ev_self(ns, id)
               [] pass = "update_strategy" /\ kind = "enter" -> strategy_self(ns, ns[id])
               [] OTHER -> ns[id])
    [] op = "Trees" ->
        (WellFormedTrees \cup MalformedTrees)
    [] op = "RegretTrees" ->
         \* the trees regret_match is applied to on its own
        RegretInputs

(***************************************************************************)
(* Panics.  ndarray aborts the process on an index outside an array and on *)
(* shapes that do not broadcast; these predicates say when a pass called   *)
(* on node id does so.                                                     *)
(***************************************************************************)
\* some infoset of n lists a state index that is not below len
IndexOutside(n, len) ==
  \E i \in 1..Len(n.infosets) : \E k \in 1..Len(n.infosets[i]) : n.infosets[i][k] >= len

\* update_probabilities on node id, whose state_probabilities has length S
RECURSIVE panics_probabilities(_, _, _)
panics_probabilities(ns, id, S) ==
  /\ IsAction(ns[id])
  /\ \/ IndexOutside(ns[id], S)
     \/ \E a \in 1..Len(ns[id].children) : panics_probabilities(ns, ns[id].children[a], S)

\* the length of payouts() of node id once update_ev has returned on it
PayoutsLen(n) == IF IsAction(n) THEN Len(n.state_probabilities) ELSE Len(n.payouts)

RECURSIVE panics_ev(_, _)
panics_ev(ns, id) ==
  /\ IsAction(ns[id])
  /\ \E a \in 1..Len(ns[id].children) :
       LET c == ns[ns[id].children[a]]
       IN  \/ panics_ev(ns, ns[id].children[a])
           \/ ~Compat(PayoutsLen(c), Len(c.state_probabilities))
           \/ ~Compat(Len(ns[id].state_probabilities),
                      BLen(PayoutsLen(c), Len(c.state_probabilities)))

RECURSIVE panics_strategy(_, _)
panics_strategy(ns, id) ==
  /\ IsAction(ns[id])
  /\ \/ IndexOutside(ns[id], Len(ns[id].state_probabilities))
     \/ IndexOutside(ns[id], Len(ns[id].evs))
     \/ \E a \in 1..Len(ns[id].children) :
          LET c == ns[ns[id].children[a]]
          IN  \/ IndexOutside(ns[id], Len(payouts(c)))
              \/ IndexOutside(ns[id], Len(c.state_probabilities))
              \/ panics_strategy(ns, ns[id].children[a])


\* the loop bounds of the two programs
KuhnIterations == 1000000
PushFoldIterations == 10000

\* the number of iterations explored
MaxIter == 2

(***************************************************************************)
(* The driver: main of kuhn.rs and of push_fold.rs                         *)
(***************************************************************************)
VARIABLES
  nodes,    \* the tree
  driver,   \* the program running: "kuhn" or "push_fold"
  pc,       \* the call the driver makes next, "done" or "panicked"
  iter,     \* iterations completed
  log,      \* the calls made on the root so far
  stamp,    \* per node, the iteration that last wrote each pass's fields
  start,    \* the tree when the pass under way began
  board,        \* the Board of tictactoe.rs
  value_table,  \* SolutionTable::value_table
  frames,       \* the calls of eval_recursive under way, the innermost last
  input,        \* the arguments of the call made
  result        \* what the call returned

\* the state of the CFR programs, and that of the other programs
cfr == <<arith, nodes, driver, iter, log, stamp, start>>
game == <<board, value_table, frames, input, result>>

vars == <<arith, nodes, driver, pc, iter, log, stamp, start,
          board, value_table, frames, input, result>>

\* the CFR programs do not hold a board, a solution table or a hand
NoGame ==
  /\ board = [occupied |-> 0, player |-> 0]
  /\ value_table = << >>
  /\ frames = << >>
  /\ input = << >>
  /\ result = << >>

Ids == 1..Len(nodes)

Iterations == IF driver = "push_fold" THEN PushFoldIterations ELSE KuhnIterations

Init ==
  /\ arith = "exact"
  /\ nodes \in Trees
  /\ driver = IF Len(nodes) = 5 /\ Len(nodes[Root].state_probabilities) = 4
              THEN "push_fold" ELSE "kuhn"
  /\ pc = "update_probabilities"
  /\ iter = 0
  /\ log = << >>
  /\ stamp = [id \in 1..Len(nodes) |-> [sp |-> 0, evs |-> 0, strategy |-> 0]]
  /\ start = nodes
  /\ NoGame

\* a faulty driver: update_strategy called straight after
\* update_probabilities
ProbabilitiesThenStrategy ==
  /\ pc = "update_probabilities"
  /\ iter < Min(Iterations, MaxIter)
  /\ log' = Append(log, "update_probabilities")
  /\ nodes' = update_probabilities(nodes, Root)
  /\ pc' = "update_strategy"
  /\ stamp' = [id \in Ids |->
                 IF id = Root THEN stamp[id] ELSE [stamp[id] EXCEPT !.sp = iter + 1]]
  /\ UNCHANGED <<arith, driver, iter, start, game>>

\* root.update_probabilities()
UpdateProbabilities ==
  /\ pc = "update_probabilities"
  /\ iter < Min(Iterations, MaxIter)
  /\ log' = Append(log, "update_probabilities")
  /\ IF panics_probabilities(nodes, Root, Len(nodes[Root].state_probabilities))
     THEN pc' = "panicked" /\ UNCHANGED <<nodes, stamp>>
     ELSE /\ nodes' = update_probabilities(nodes, Root)
          /\ pc' = "update_ev"
          /\ stamp' = [id \in Ids |->
                         IF id = Root THEN stamp[id] ELSE [stamp[id] EXCEPT !.sp = iter + 1]]
  /\ UNCHANGED <<arith, driver, iter, start, game>>

\* root.update_ev()
UpdateEv ==
  /\ pc = "update_ev"
  /\ log' = Append(log, "update_ev")
  /\ IF panics_ev(nodes, Root)
     THEN pc' = "panicked" /\ UNCHANGED <<nodes, stamp>>
     ELSE /\ nodes' = update_ev(nodes, Root)
          /\ pc' = "update_strategy"
          /\ stamp' = [id \in Ids |->
                         IF IsAction(nodes[id]) THEN [stamp[id] EXCEPT !.evs = iter + 1]
                         ELSE stamp[id]]
  /\ UNCHANGED <<arith, driver, iter, start, game>>

\* root.update_strategy(), and the end of the loop body
UpdateStrategy ==
  /\ pc = "update_strategy"
  /\ log' = Append(log, "update_strategy")
  /\ IF panics_strategy(nodes, Root)
     THEN pc' = "panicked" /\ UNCHANGED <<nodes, stamp, iter>>
     ELSE /\ nodes' = update_strategy(nodes, Root)
          /\ iter' = iter + 1
          /\ pc' = IF iter + 1 < Iterations THEN "update_probabilities" ELSE "done"
          /\ stamp' = [id \in Ids |->
                         IF IsAction(nodes[id]) THEN [stamp[id] EXCEPT !.strategy = iter + 1]
                         ELSE stamp[id]]
  /\ UNCHANGED <<arith, driver, start, game>>

Next == UpdateProbabilities \/ UpdateEv \/ UpdateStrategy

Spec == Init /\ [][Next]_vars

TypeOK ==
  /\ arith \in {"exact", "f64"}
  /\ pc \in {"update_probabilities", "update_ev", "update_strategy", "regret_match",
             "done", "panicked"}

(***************************************************************************)
(* regret_match on its own: a decision node over terminals whose regrets   *)
(* are drawn from RegretValues, in either arithmetic.                      *)
(***************************************************************************)
RegretInit ==
  /\ arith \in {"exact", "f64"}
  /\ nodes \in RegretTrees
  /\ driver = "regret_match"
  /\ pc = "regret_match"
  /\ iter = 0
  /\ log = << >>
  /\ stamp = [id \in 1..Len(nodes) |-> [sp |-> 0, evs |-> 0, strategy |-> 0]]
  /\ start = nodes
  /\ NoGame

\* self.strategy = self.regret_match()
RegretMatch ==
  /\ pc = "regret_match"
  /\ nodes' = [nodes EXCEPT ![Root].strategy = regret_match(nodes[Root])]
  /\ pc' = "done"
  /\ log' = Append(log, "regret_match")
  /\ UNCHANGED <<arith, driver, iter, stamp, start, game>>

RegretNext == RegretMatch

RegretSpec == RegretInit /\ [][RegretNext]_vars
(***************************************************************************)
(* One pass, step by step.  par_iter_mut hands the children of a node to   *)
(* the workers of the pool, so the calls on the subtrees of two children   *)
(* run in any order and interleave; for_each returns when all of them have *)
(* returned.  A step is the statements of one call that write one node,    *)
(* and it is given the nodes those statements read and no others.  log is  *)
(* the set of the steps taken in the pass under way.                       *)
(***************************************************************************)
\* the iterations explored step by step
PassIters == 1

\* the trees explored step by step
PassTrees == {ns \in Trees : Len(ns) = 9 \/ Len(ns) = 5}

\* the tree ns with the nodes outside S hidden
Visible(ns, S) == [k \in 1..Len(ns) |-> IF k \in S THEN ns[k] ELSE [kind |-> "hidden"]]

\* the nodes the statements of a step at node id read
Reads(pass, kind, id) ==
  CASE kind = "set" -> {Parent(nodes, id), id}
    [] pass = "update_ev" /\ kind = "return" -> {id} \cup Children(nodes, id)
    [] pass = "update_strategy" /\ kind = "enter" -> {id} \cup Children(nodes, id)
    [] OTHER -> {id}

\* the step has been taken in the pass under way
Taken(kind, id) == <<kind, id>> \in log

\* the effect of a step on the tree and on the log
Effect(kind, id) ==
  /\ nodes' = [nodes EXCEPT ![id] = pass_step(pc, kind, Visible(nodes, Reads(pc, kind, id)), id)]
  /\ log' = log \cup {<<kind, id>>}
  /\ UNCHANGED <<arith, driver, pc, iter, stamp, start, game>>

PassInit ==
  /\ arith = "exact"
  /\ nodes \in PassTrees
  /\ driver = "pass"
  /\ pc = "update_probabilities"
  /\ iter = 0
  /\ log = {}
  /\ stamp = << >>
  /\ start = nodes
  /\ NoGame

\* a faulty call: in update_probabilities too, the call on a child begins
\* as soon as the parent's has
EnterUnset(id) ==
  /\ pc \in {"update_probabilities", "update_ev", "update_strategy"}
  /\ ~Taken("enter", id)
  /\ IF id = Root THEN log = {} ELSE Taken("enter", Parent(nodes, id))
  /\ Effect("enter", id)

\* the call of the pass on node id begins: on the root by the driver, on
\* another node by its parent, in update_probabilities once the closure has
\* set the node's reach
CanEnter(id) ==
  /\ pc \in {"update_probabilities", "update_ev", "update_strategy"}
  /\ ~Taken("enter", id)
  /\ IF id = Root THEN log = {}
     ELSE IF pc = "update_probabilities" THEN Taken("set", id)
     ELSE Taken("enter", Parent(nodes, id))

Enter(id) == CanEnter(id) /\ Effect("enter", id)

\* the closure of update_probabilities sets the reach of child id
CanSetChild(id) ==
  /\ pc = "update_probabilities"
  /\ id # Root
  /\ Taken("enter", Parent(nodes, id))
  /\ ~Taken("set", id)

SetChild(id) == CanSetChild(id) /\ Effect("set", id)

\* a faulty return: the calls on the children are not waited for
ReturnEarly(id) ==
  /\ Taken("enter", id)
  /\ ~Taken("return", id)
  /\ Effect("return", id)

\* the call on node id returns, once the calls on its children have
\* returned and, in update_ev, its evs are computed
CanReturn(id) ==
  /\ Taken("enter", id)
  /\ ~Taken("return", id)
  /\ \A c \in Children(nodes, id) : Taken("return", c)

Return(id) == CanReturn(id) /\ Effect("return", id)

\* the driver goes on to its next call
NextPass ==
  /\ Taken("return", Root)
  /\ pc' = CASE pc = "update_probabilities" -> "update_ev"
             [] pc = "update_ev" -> "update_strategy"
             [] OTHER -> IF iter + 1 < PassIters THEN "update_probabilities" ELSE "done"
  /\ iter' = IF pc = "update_strategy" THEN iter + 1 ELSE iter
  /\ log' = {}
  /\ start' = nodes
  /\ UNCHANGED <<arith, nodes, driver, stamp, game>>

PassNext ==
  \/ \E id \in Ids : Enter(id)
  \/ \E id \in Ids : SetChild(id)
  \/ \E id \in Ids : Return(id)
  \/ NextPass

PassSpec == PassInit /\ [][PassNext]_vars

\* under PassSpec a pass comes to its end: a step of a pass is one that was
\* not taken before in that pass, of the three a node has (PassSteps), and
\* as long as the iterations explored are not over some step can be taken
\* (PassNotStuck)
PassSteps ==
  /\ [][IF pc' = pc THEN log \subseteq log' /\ log' # log ELSE Taken("return", Root)]_vars
  /\ [](log \subseteq ({"enter", "set", "return"} \X Ids))

PassNotStuck ==
  pc # "done" =>
    \/ \E id \in Ids : CanEnter(id) \/ CanSetChild(id) \/ CanReturn(id)
    \/ Taken("return", Root)

(***************************************************************************)
(* The loop of main on its own, run to its bound.  Whether a pass panics   *)
(* is decided by the lengths and the indices in the tree, which the passes *)
(* leave as the constructors made them on the trees the two programs build *)
(* (VerdictsKept below), so the loop carries the three verdicts in stamp   *)
(* in place of the tree, and a call is reduced to whether it returns.      *)
(***************************************************************************)
\* the trees the two programs build
LoopTrees ==
  {ns \in Trees : Len(ns) = 9 \/ (Len(ns) = 5 /\ Len(ns[Root].state_probabilities) = 4)}

\* per pass, whether calling it on the root of ns panics
Verdicts(ns) ==
  [update_probabilities |->
     panics_probabilities(ns, Root, Len(ns[Root].state_probabilities)),
   update_ev            |-> panics_ev(ns, Root),
   update_strategy      |-> panics_strategy(ns, Root)]

\* under Spec, the verdicts of a tree one of the programs built stay those
\* of the tree as built
VerdictsKept == start \in LoopTrees => Verdicts(nodes) = Verdicts(start)

LoopInit ==
  /\ arith = "exact"
  /\ \E ns \in LoopTrees :
    /\ nodes = << >>
    /\ driver = IF Len(ns) = 5 THEN "push_fold" ELSE "kuhn"
    /\ pc = "update_probabilities"
    /\ iter = 0
    /\ log = << >>
    /\ stamp = Verdicts(ns)
    /\ start = << >>
    /\ NoGame

\* a faulty loop: it is left once ten iterations have been made
LoopStrategyConverged ==
  /\ pc = "update_strategy"
  /\ iter' = iter + 1
  /\ pc' = IF stamp[pc] THEN "panicked"
           ELSE IF iter + 1 < Iterations /\ iter + 1 < 10 THEN "update_probabilities"
           ELSE "done"
  /\ UNCHANGED <<arith, nodes, driver, log, stamp, start, game>>

\* root.update_probabilities()
LoopProbabilities ==
  /\ pc = "update_probabilities"
  /\ iter < Iterations
  /\ pc' = IF stamp[pc] THEN "panicked" ELSE "update_ev"
  /\ UNCHANGED <<arith, nodes, driver, iter, log, stamp, start, game>>

\* root.update_ev()
LoopEv ==
  /\ pc = "update_ev"
  /\ pc' = IF stamp[pc] THEN "panicked" ELSE "update_strategy"
  /\ UNCHANGED <<arith, nodes, driver, iter, log, stamp, start, game>>

\* root.update_strategy(), and the end of the loop body
LoopStrategy ==
  /\ pc = "update_strategy"
  /\ iter' = iter + 1
  /\ pc' = IF stamp[pc] THEN "panicked"
           ELSE IF iter + 1 < Iterations THEN "update_probabilities"
           ELSE "done"
  /\ UNCHANGED <<arith, nodes, driver, log, stamp, start, game>>

LoopNext == LoopProbabilities \/ LoopEv \/ LoopStrategy

LoopSpec == LoopInit /\ [][LoopNext]_vars

\* main is one thread, and it runs on whenever it can
LoopFairSpec == LoopSpec /\ WF_vars(LoopNext)

(***************************************************************************)
(* tictactoe.rs: the bit board.  A u16 is a number below 2^16.             *)
(***************************************************************************)
\* Number of tiles on the board
BOARD_SIZE == 9

\* Possible winning configurations
WIN_LINES == <<448, 56, 7, 292, 146, 73, 273, 84>>

\* Rotations and reflections (tile indices from 0, as in the source)
TRANSFORMATIONS ==
  << <<0, 1, 2, 3, 4, 5, 6, 7, 8>>,
     <<2, 5, 8, 1, 4, 7, 0, 3, 6>>,
     <<8, 7, 6, 5, 4, 3, 2, 1, 0>>,
     <<6, 3, 0, 7, 4, 1, 8, 5, 2>>,
     <<6, 7, 8, 3, 4, 5, 0, 1, 2>>,
     <<2, 1, 0, 5, 4, 3, 8, 7, 6>>,
     <<8, 5, 2, 7, 4, 1, 6, 3, 0>>,
     <<0, 3, 6, 1, 4, 7, 2, 5, 8>> >>

U16 == 65536

\* bit i of the u16 x
Bit(x, i) == (x \div (2 ^ i)) % 2

\* x & y and !x on u16
RECURSIVE BitAnd(_, _)
BitAnd(x, y) ==
  IF x = 0 \/ y = 0 THEN 0
  ELSE (x % 2) * (y % 2) + 2 * BitAnd(x \div 2, y \div 2)

BitNot(x) == U16 - 1 - x

\* x | (1 << i) and x & !(1 << i), for i below 16
SetBit(x, i) == IF Bit(x, i) = 1 THEN x ELSE x + 2 ^ i
ClearBit(x, i) == IF Bit(x, i) = 1 THEN x - 2 ^ i ELSE x

\* u16::count_ones
count_ones(x) == Cardinality({i \in 0..15 : Bit(x, i) = 1})

\* Board::default
DefaultBoard == [occupied |-> 0, player |-> 0]

\* Result: Ok(v) and Err(e)
Ok(v) == [ok |-> TRUE, value |-> v]
Err(e) == [ok |-> FALSE, value |-> e]

\* Board::get.  1 << index is taken only for index <= BOARD_SIZE, where it
\* is below 2^16.
get(b, index) ==
  IF index > BOARD_SIZE THEN Err("OutOfBoundsError")
  ELSE IF Bit(b.occupied, index) = 0 THEN Ok("Empty")
  ELSE IF Bit(b.player, index) > 0 THEN Ok("X")
  ELSE Ok("O")

\* Board::set: the board it leaves and the Result it returns
set(b, index, tile) ==
  IF index > BOARD_SIZE THEN [board |-> b, result |-> Err("OutOfBoundsError")]
  ELSE [board |->
          CASE tile = "Empty" ->
                 [b EXCEPT !.occupied = ClearBit(@, index)]
            [] tile = "X" ->
                 [b EXCEPT !.occupied = SetBit(@, index),
                           !.player = SetBit(@, index)]
            [] tile = "O" ->
                 [b EXCEPT !.occupied = SetBit(@, index),
                           !.player = ClearBit(@, index)],
        result |-> Ok("()")]

\* Board::turn
turn(b) == IF count_ones(b.occupied) % 2 = 0 THEN "X" ELSE "O"

\* Board::winner: the lines are tried in their order, X before O on each
RECURSIVE winner_from(_, _, _)
winner_from(x_pos, o_pos, l) ==
  IF l > Len(WIN_LINES) THEN "Empty"
  ELSE IF BitAnd(x_pos, WIN_LINES[l]) = WIN_LINES[l] THEN "X"
  ELSE IF BitAnd(o_pos, WIN_LINES[l]) = WIN_LINES[l] THEN "O"
  ELSE winner_from(x_pos, o_pos, l + 1)

winner(b) ==
  winner_from(BitAnd(b.occupied, b.player), BitAnd(b.occupied, BitNot(b.player)), 1)

\* Board::valid_moves, in ascending order
RECURSIVE valid_moves_from(_, _)
valid_moves_from(b, x) ==
  IF x >= BOARD_SIZE THEN << >>
  ELSE IF Bit(b.occupied, x) = 0 THEN <<x>> \o valid_moves_from(b, x + 1)
  ELSE valid_moves_from(b, x + 1)

valid_moves(b) == valid_moves_from(b, 0)

\* Board::act: the board it leaves and the Result it returns
act(b, index) ==
  LET current_value == get(b, index)
  IN  IF ~current_value.ok THEN [board |-> b, result |-> current_value]
      ELSE IF current_value.value = "Empty" THEN set(b, index, turn(b))
      ELSE [board |-> b, result |-> Err("InvalidMoveError")]

\* Tile::hash
tile_hash(t) == CASE t = "Empty" -> 0 [] t = "X" -> 1 [] t = "O" -> 2

\* hash_values of invariant_hash: the hash of each tile, in the order of
\* the tiles
RECURSIVE hash_values_from(_, _)
hash_values_from(b, x) ==
  IF x >= BOARD_SIZE THEN << >>
  ELSE <<tile_hash(get(b, x).value)>> \o hash_values_from(b, x + 1)

\* the fold of invariant_hash over the tiles x[k..] of one transformation,
\* in u16
RECURSIVE hash_fold(_, _, _, _)
hash_fold(hash_values, x, k, i) ==
  IF k > Len(x) THEN i
  ELSE hash_fold(hash_values, x, k + 1, (i * 3 + hash_values[x[k] + 1]) % U16)

\* a faulty hash: the identity transformation alone
invariant_hash_plain(b) == hash_fold(hash_values_from(b, 0), TRANSFORMATIONS[1], 1, 0)

\* Board::invariant_hash
invariant_hash(b) ==
  LET hash_values == hash_values_from(b, 0)
      hs == {hash_fold(hash_values, TRANSFORMATIONS[t], 1, 0) : t \in 1..Len(TRANSFORMATIONS)}
  IN  CHOOSE h \in hs : \A g \in hs : h <= g

\* the CFR variables of the programs that hold no tree
NoTree ==
  /\ arith = "exact"
  /\ nodes = << >>
  /\ iter = 0
  /\ log = << >>
  /\ stamp = << >>
  /\ start = << >>

(***************************************************************************)
(* One call of Board::get or Board::set, on boards as the tests build them *)
(***************************************************************************)
\* the largest index passed to get, set and act
MaxIndex == 11

Tiles == {"X", "O", "Empty"}

\* boards of tests::test_board_get, test_board_set and test_solver
BoardInputs ==
  {DefaultBoard,
   [occupied |-> 1, player |-> 1],
   [occupied |-> 32, player |-> 0],
   [occupied |-> 256, player |-> BitAnd(BitNot(0), BitNot(256))],
   [occupied |-> 384, player |-> 256],
   [occupied |-> 511, player |-> 341]}

BoardInit ==
  /\ NoTree
  /\ driver = "tests"
  /\ pc = "call"
  /\ board \in BoardInputs
  /\ value_table = << >>
  /\ frames = << >>
  /\ input = << >>
  /\ result = << >>

\* board.get(index)
Get(index) ==
  /\ pc = "call"
  /\ input' = <<"get", index>>
  /\ result' = get(board, index)
  /\ pc' = "returned"
  /\ UNCHANGED <<cfr, board, value_table, frames>>

\* board.set(index, tile)
Set(index, tile) ==
  /\ pc = "call"
  /\ input' = <<"set", index, tile>>
  /\ LET r == set(board, index, tile)
     IN  board' = r.board /\ result' = r.result
  /\ pc' = "returned"
  /\ UNCHANGED <<cfr, value_table, frames>>

BoardNext ==
  \/ \E index \in 0..MaxIndex : Get(index)
  \/ \E index \in 0..MaxIndex : \E tile \in Tiles : Set(index, tile)

BoardSpec == BoardInit /\ [][BoardNext]_vars

(***************************************************************************)
(* Board::act called again and again on a board that starts empty, as the  *)
(* loop of main does with the indices read from stdin                      *)
(***************************************************************************)
PlayInit ==
  /\ NoTree
  /\ driver = "tictactoe"
  /\ pc = "play"
  /\ board = DefaultBoard
  /\ value_table = << >>
  /\ frames = << >>
  /\ input = << >>
  /\ result = << >>

\* board.act(index)
Act(index) ==
  /\ pc = "play"
  /\ input' = <<"act", index>>
  /\ LET r == act(board, index)
     IN  board' = r.board /\ result' = r.result
  /\ UNCHANGED <<cfr, pc, value_table, frames>>

PlayNext == \E index \in 0..MaxIndex : Act(index)

PlaySpec == PlayInit /\ [][PlayNext]_vars

(***************************************************************************)
(* SolutionTable::eval_recursive, call by call.  frames holds the calls    *)
(* under way; a call that found its position neither in the table nor      *)
(* finished waits in frames for the values of its children, which it asks  *)
(* for one after the other.                                                *)
(***************************************************************************)
\* the calls tests::test_solver makes on one SolutionTable
MaxSolves == 2

\* the position of tests::test_solver: X on tile 8, O on tile 7
TestBoard == [occupied |-> 384, player |-> 256]

SolveBoards == {DefaultBoard, TestBoard}

SeqMax(s) == CHOOSE v \in {s[k] : k \in 1..Len(s)} : \A k \in 1..Len(s) : s[k] <= v
SeqMin(s) == CHOOSE v \in {s[k] : k \in 1..Len(s)} : \A k \in 1..Len(s) : v <= s[k]

\* HashMap::insert
insert(table, key, value) ==
  [k \in DOMAIN table \cup {key} |-> IF k = key THEN value ELSE table[k]]

\* the value of a position whose winner is t
won_value(b, t) ==
  IF t = "X" THEN BOARD_SIZE - count_ones(b.occupied) + 1
  ELSE 0 - (BOARD_SIZE - count_ones(b.occupied) + 1)

\* the boards after each valid move, in the order of valid_moves
children_of(b) ==
  LET moves == valid_moves(b)
  IN  [k \in 1..Len(moves) |-> act(b, moves[k]).board]

\* a faulty choice: the largest value whoever is to move
node_value_max(b, child_values) == SeqMax(child_values)

\* the value of a position from those of its children
node_value(b, child_values) ==
  IF turn(b) = "X" THEN SeqMax(child_values) ELSE SeqMin(child_values)

Frame(b) == [board |-> b, hash |-> invariant_hash(b), children |-> << >>, child_values |-> << >>]

Top == frames[Len(frames)]
Pop == SubSeq(frames, 1, Len(frames) - 1)

SolveInit ==
  /\ NoTree
  /\ driver = "tests"
  /\ pc = "idle"
  /\ board = DefaultBoard
  /\ value_table = << >>
  /\ frames = << >>
  /\ input = << >>
  /\ result = << >>

\* solver.eval_recursive(&b), called by the test
EvalRecursive(b) ==
  /\ pc = "idle"
  /\ Len(input) < MaxSolves
  /\ board' = b
  /\ input' = Append(input, b)
  /\ frames' = <<Frame(b)>>
  /\ pc' = "call"
  /\ UNCHANGED <<cfr, value_table, result>>

\* the innermost call begins: it returns the value the table holds, or that
\* of a finished position, or goes on to its first child
Lookup ==
  /\ pc = "call"
  /\ LET b == Top.board
         hash == Top.hash
     IN  IF hash \in DOMAIN value_table
         THEN /\ result' = value_table[hash]
              /\ frames' = Pop
              /\ pc' = "return"
              /\ UNCHANGED value_table
         ELSE IF winner(b) # "Empty"
         THEN /\ result' = won_value(b, winner(b))
              /\ value_table' = insert(value_table, hash, won_value(b, winner(b)))
              /\ frames' = Pop
              /\ pc' = "return"
         ELSE IF valid_moves(b) = << >>
         THEN /\ result' = 0
              /\ value_table' = insert(value_table, hash, 0)
              /\ frames' = Pop
              /\ pc' = "return"
         ELSE /\ frames' = Append([frames EXCEPT ![Len(frames)].children = children_of(b)],
                                  Frame(children_of(b)[1]))
              /\ pc' = "call"
              /\ UNCHANGED <<value_table, result>>
  /\ UNCHANGED <<cfr, board, input>>

\* a call has returned: to the test, or to the call that waits for it,
\* which asks for its next child or, with all values in, stores its own
Returned ==
  /\ pc = "return"
  /\ IF frames = << >>
     THEN pc' = "idle" /\ UNCHANGED <<frames, value_table, result>>
     ELSE LET child_values == Append(Top.child_values, result)
          IN  IF Len(child_values) < Len(Top.children)
              THEN /\ frames' = Append([frames EXCEPT ![Len(frames)].child_values =
                                                        child_values],
                                       Frame(Top.children[Len(child_values) + 1]))
                   /\ pc' = "call"
                   /\ UNCHANGED <<value_table, result>>
              ELSE /\ result' = node_value(Top.board, child_values)
                   /\ value_table' = insert(value_table, Top.hash,
                                            node_value(Top.board, child_values))
                   /\ frames' = Pop
                   /\ pc' = "return"
  /\ UNCHANGED <<cfr, board, input>>

SolveNext == (\E b \in SolveBoards : EvalRecursive(b)) \/ Lookup \/ Returned

SolveSpec == SolveInit /\ [][SolveNext]_vars

(***************************************************************************)
(* Board::invariant_hash called on a board, for every way to fill the nine *)
(* tiles                                                                   *)
(***************************************************************************)
\* the board whose tile x has the hash d[x]
RECURSIVE BoardFrom(_, _)
BoardFrom(d, x) ==
  IF x >= BOARD_SIZE THEN DefaultBoard
  ELSE LET rest == BoardFrom(d, x + 1)
       IN  CASE d[x] = 0 -> rest
             [] d[x] = 1 -> [occupied |-> rest.occupied + 2 ^ x, player |-> rest.player + 2 ^ x]
             [] d[x] = 2 -> [occupied |-> rest.occupied + 2 ^ x, player |-> rest.player]

\* the boards with each of the tiles 0..8 empty, X or O
HashBoards == {BoardFrom(d, 0) : d \in [0..(BOARD_SIZE - 1) -> 0..2]}

HashInit ==
  /\ NoTree
  /\ driver = "tests"
  /\ pc = "call"
  /\ board \in HashBoards
  /\ value_table = << >>
  /\ frames = << >>
  /\ input = << >>
  /\ result = << >>

\* board.invariant_hash()
InvariantHash ==
  /\ pc = "call"
  /\ input' = <<"invariant_hash">>
  /\ result' = invariant_hash(board)
  /\ pc' = "returned"
  /\ UNCHANGED <<cfr, board, value_table, frames>>

HashNext == InvariantHash

HashSpec == HashInit /\ [][HashNext]_vars

(***************************************************************************)
(* utils.rs.  The products stay far below usize::MAX for the lists         *)
(* explored.                                                               *)
(***************************************************************************)
\* (a..b).product() of a half-open range
RECURSIVE product(_, _)
product(a, b) == IF a >= b THEN 1 ELSE a * product(a + 1, b)

factorial(x) == product(1, x + 1)

RECURSIVE choose(_, _)
choose(n, k) ==
  IF k <= n - k THEN product(n - k + 1, n + 1) \div factorial(k)
  ELSE choose(n, n - k)

\* flat_map(..).collect(): the vectors of vs one after the other
RECURSIVE flatten(_)
flatten(vs) == IF vs = << >> THEN << >> ELSE Head(vs) \o flatten(Tail(vs))

\* a faulty enumeration: the remainder starts at the prefix, not after it
RECURSIVE enumerate_combos_from_prefix(_, _)
enumerate_combos_from_prefix(items, k) ==
  IF k = 1 THEN [j \in 1..Len(items) |-> <<items[j]>>]
  ELSE IF k = Len(items) THEN <<items>>
  ELSE flatten([i \in 1..(Len(items) - k + 1) |->
         LET remainder ==
               enumerate_combos_from_prefix(SubSeq(items, i, Len(items)), k - 1)
         IN  [j \in 1..Len(remainder) |-> <<items[i]>> \o remainder[j]]])

\* enumerate_combos; position i here is index i - 1 of the source
RECURSIVE enumerate_combos(_, _)
enumerate_combos(items, k) ==
  IF k = 1 THEN [j \in 1..Len(items) |-> <<items[j]>>]
  ELSE IF k = Len(items) THEN <<items>>
  ELSE flatten([i \in 1..(Len(items) - k + 1) |->
         LET remainder == enumerate_combos(SubSeq(items, i + 1, Len(items)), k - 1)
         IN  [j \in 1..Len(remainder) |-> <<items[i]>> \o remainder[j]]])

\* the longest list of items explored
MaxItems == 5

\* the lists of distinct items
ItemLists ==
  {items \in UNION {[1..n -> 0..(MaxItems - 1)] : n \in 1..MaxItems} :
     \A a, b \in 1..Len(items) : a # b => items[a] # items[b]}

CombosInit ==
  /\ NoTree
  /\ driver = "tests"
  /\ pc = "call"
  /\ board = DefaultBoard
  /\ value_table = << >>
  /\ frames = << >>
  /\ \E items \in ItemLists : \E k \in 1..Len(items) : input = <<items, k>>
  /\ result = << >>

\* enumerate_combos(items, k)
EnumerateCombos ==
  /\ pc = "call"
  /\ result' = enumerate_combos(input[1], input[2])
  /\ pc' = "returned"
  /\ UNCHANGED <<cfr, board, value_table, frames, input>>

CombosNext == EnumerateCombos

CombosSpec == CombosInit /\ [][CombosNext]_vars

(***************************************************************************)
(* push_fold.rs: Hand.  A card is a number 0..51, its rank card / 4 and    *)
(* its suit card % 4; a String is the sequence of its characters.          *)
(***************************************************************************)
\* rust_poker::constants::RANK_TO_CHAR
RANK_TO_CHAR == <<"2", "3", "4", "5", "6", "7", "8", "9", "T", "J", "Q", "K", "A">>

\* the cards of a deck
Cards == 0..51

\* impl Display for Hand: Hand(c0, c1).to_string()
to_string(c0, c1) ==
  LET r1 == c0 \div 4
      r2 == c1 \div 4
      s1 == c0 % 4
      s2 == c1 % 4
  IN  IF r1 = r2 THEN <<RANK_TO_CHAR[r1 + 1], RANK_TO_CHAR[r1 + 1]>>
      ELSE IF s1 = s2
      THEN IF r1 > r2 THEN <<RANK_TO_CHAR[r1 + 1], RANK_TO_CHAR[r2 + 1], "s">>
           ELSE <<RANK_TO_CHAR[r2 + 1], RANK_TO_CHAR[r1 + 1], "s">>
      ELSE IF r1 > r2 THEN <<RANK_TO_CHAR[r1 + 1], RANK_TO_CHAR[r2 + 1], "o">>
      ELSE <<RANK_TO_CHAR[r2 + 1], RANK_TO_CHAR[r1 + 1], "o">>

\* Hand::index_to_str
index_to_str(x) ==
  LET i == x \div 13
      j == x % 13
  IN  IF i > j THEN <<RANK_TO_CHAR[i + 1], RANK_TO_CHAR[j + 1], "s">>
      ELSE IF i < j THEN <<RANK_TO_CHAR[j + 1], RANK_TO_CHAR[i + 1], "o">>
      ELSE <<RANK_TO_CHAR[i + 1], RANK_TO_CHAR[j + 1]>>

\* a faulty index: the rank of the first card always leads
get_index_first_leads(c1, c2) == 13 * (c1 \div 4) + (c2 \div 4)

\* Hand::get_index
get_index(c1, c2) ==
  LET r1 == c1 \div 4
      s1 == c1 % 4
      r2 == c2 \div 4
      s2 == c2 % 4
  IN  IF (r1 = r2) \/ (s1 = s2) THEN 13 * r1 + r2 ELSE 13 * r2 + r1

HandInit ==
  /\ NoTree
  /\ driver = "push_fold"
  /\ pc = "call"
  /\ board = DefaultBoard
  /\ value_table = << >>
  /\ frames = << >>
  /\ \E c1, c2 \in Cards : c1 # c2 /\ input = <<c1, c2>>
  /\ result = << >>

\* Hand(c1, c2).to_string()
Display ==
  /\ pc = "call"
  /\ result' = to_string(input[1], input[2])
  /\ pc' = "shown"
  /\ UNCHANGED <<cfr, board, value_table, frames, input>>

\* Hand::get_index(c1, c2)
GetIndex ==
  /\ pc = "call"
  /\ result' = get_index(input[1], input[2])
  /\ pc' = "indexed"
  /\ UNCHANGED <<cfr, board, value_table, frames, input>>

\* Hand::index_to_str of the index found
IndexToStr ==
  /\ pc = "indexed"
  /\ result' = index_to_str(result)
  /\ pc' = "named"
  /\ UNCHANGED <<cfr, board, value_table, frames, input>>

HandNext == Display \/ GetIndex \/ IndexToStr

HandSpec == HandInit /\ [][HandNext]_vars

(***************************************************************************)
(* Properties                                                              *)
(***************************************************************************)
\* the order of the calls of one iteration of the loop body
Passes == <<"update_probabilities", "update_ev", "update_strategy">>

\* how many times state s (counted from 0) is listed in the infosets of n
Occurrences(n, s) ==
  Cardinality({p \in {<<i, k>> : i \in 1..Len(n.infosets), k \in 1..SetMax({Len(n.infosets[j]) : j \in 1..Len(n.infosets)} \cup {0})} :
                 p[2] <= Len(n.infosets[p[1]]) /\ n.infosets[p[1]][p[2]] = s})

\* the infosets of n partition its states
Partitioned(n) ==
  /\ ~IndexOutside(n, Len(n.state_probabilities))
  /\ \A s \in 0..(Len(n.state_probabilities) - 1) : Occurrences(n, s) = 1

\* the information set of n that holds state s (counted from 0)
InfosetOf(n, s) == CHOOSE i \in Holding(n, s) : TRUE

\* every decision node of ns has at least one child, infosets that
\* partition its states, and children over the same number of states
WellBuilt(ns) ==
  \A id \in 1..Len(ns) :
    IsAction(ns[id]) =>
      /\ Len(ns[id].children) > 0
      /\ Partitioned(ns[id])
      /\ \A a \in 1..Len(ns[id].children) :
           /\ Len(ns[ns[id].children[a]].state_probabilities) = Len(ns[id].state_probabilities)
           /\ PayoutsLen(ns[ns[id].children[a]]) = Len(ns[id].state_probabilities)

\* col is a probability distribution
IsDistribution(col) ==
  /\ \A a \in 1..Len(col) : IsFinite(col[a]) /\ ~RLt(col[a], Zero)
  /\ REq(VSum(col), One)

\* C1: the calls made on the root are update_probabilities, update_ev and
\* update_strategy, in that order, again and again, with nothing between
\* them; when update_ev of an iteration is called every state_probabilities
\* below the root was written by update_probabilities of that iteration, and
\* when update_strategy of an iteration is called every evs was written by
\* update_ev of that iteration.
C1_PassOrder ==
  /\ \A k \in 1..Len(log) : log[k] = Passes[((k - 1) % 3) + 1]
  /\ pc = "update_probabilities" => Len(log) = 3 * iter
  /\ pc = "update_ev" =>
       /\ Len(log) = 3 * iter + 1
       /\ \A id \in Ids \ {Root} : stamp[id].sp = iter + 1
  /\ pc = "update_strategy" =>
       /\ Len(log) = 3 * iter + 2
       /\ \A id \in Ids \ {Root} : stamp[id].sp = iter + 1
       /\ \A id \in Ids : IsAction(nodes[id]) => stamp[id].evs = iter + 1

\* two whole iterations have run
C1_TwoIterations == iter = 2 /\ Len(log) = 6 /\ pc = "update_probabilities"

\* C2: after update_probabilities, at every decision node whose infosets
\* partition its states, the reach of child a in state s is the node's own
\* reach of s times the strategy entry of action a in the information set
\* that holds s.
C2_ChildReach ==
  pc = "update_ev" =>
    \A id \in Ids :
      (IsAction(nodes[id]) /\ Partitioned(nodes[id])) =>
        \A a \in 1..Len(nodes[id].children) :
          \A s \in 1..Len(nodes[id].state_probabilities) :
            nodes[nodes[id].children[a]].state_probabilities[s]
              = RMul(nodes[id].state_probabilities[s],
                     nodes[id].strategy[a][InfosetOf(nodes[id], s - 1)])

\* the downward pass of the second iteration has run on the Kuhn tree, with
\* a strategy that differs between two information sets
C2_SecondDownwardPass ==
  /\ pc = "update_ev" /\ iter = 1 /\ Len(nodes) = 9
  /\ \E id \in Ids :
       /\ IsAction(nodes[id]) /\ Partitioned(nodes[id])
       /\ nodes[id].strategy[1][1] # nodes[id].strategy[1][2]

\* C3: at every point of every run, every column of the strategy of every
\* decision node with at least one child is a probability distribution.
C3_StrategyColumns ==
  \A id \in Ids :
    (IsAction(nodes[id]) /\ Len(nodes[id].children) > 0) =>
      \A i \in 1..Len(nodes[id].infosets) : IsDistribution(Col(nodes[id].strategy, i))

\* two iterations have run and some strategy column is not uniform
C3_NonUniformStrategy ==
  /\ iter = 2 /\ WellBuilt(nodes)
  /\ \E id \in Ids :
       /\ IsAction(nodes[id]) /\ Len(nodes[id].children) > 1
       /\ nodes[id].strategy[1][1] # nodes[id].strategy[2][1]

\* C4: on a tree whose decision nodes are well built, at every
\* update_strategy the denominator total_probabilities[i] + pi_I[i] of every
\* information set is strictly positive, and every column of avg_strategy is
\* a probability distribution.
C4_AvgStrategyColumns ==
  WellBuilt(nodes) =>
    \A id \in Ids :
      IsAction(nodes[id]) =>
        \A i \in 1..Len(nodes[id].infosets) :
          /\ pc = "update_strategy" =>
               RLt(Zero, RAdd(nodes[id].total_probabilities[i],
                              infoset_probabilities(nodes[id], nodes[id].state_probabilities)[i]))
          /\ IsDistribution(Col(nodes[id].avg_strategy, i))

\* C5: a tree with a decision node that is not well built never has a pass
\* called on it.
C5_RejectedAtConstruction == ~WellBuilt(nodes) => log = << >>

\* C6: each of the three updates called on a terminal node changes nothing,
\* and no step of a run changes the name or the payouts of a terminal node.
C6_TerminalsUntouched ==
  /\ [](\A id \in Ids :
          ~IsAction(nodes[id]) =>
            /\ update_probabilities(nodes, id) = nodes
            /\ update_ev(nodes, id) = nodes
            /\ update_strategy(nodes, id) = nodes)
  /\ [][\A id \in Ids :
          ~IsAction(nodes[id]) =>
            /\ nodes'[id].name = nodes[id].name
            /\ nodes'[id].payouts = nodes[id].payouts]_vars

\* a terminal node whose reach the second downward pass has written
C6_TerminalAfterPasses ==
  /\ iter = 1 /\ pc = "update_probabilities"
  /\ \E id \in Ids : ~IsAction(nodes[id]) /\ stamp[id].sp = 1
                     /\ nodes[id].state_probabilities # Zeros(Len(nodes[id].state_probabilities))

\* C7: the state_probabilities and the payouts of every terminal node have
\* the same length.
C7_TerminalLengths ==
  \A id \in Ids :
    ~IsAction(nodes[id]) => Len(nodes[id].state_probabilities) = Len(nodes[id].payouts)

\* C8: after update_probabilities and update_ev, at every decision node
\* whose infosets partition its states, evs[s] is 0 where the reach of s is
\* 0 and otherwise the sum over the actions of the strategy entry of the
\* information set that holds s times the child's payouts()[s]; on the tree
\* of Scenario U the root's evs are 8/3, 13/6 and 7/3.
C8_Evs ==
  pc = "update_strategy" =>
    /\ \A id \in Ids :
         (IsAction(nodes[id]) /\ Partitioned(nodes[id])) =>
           \A s \in 1..Len(nodes[id].state_probabilities) :
             nodes[id].evs[s] =
               IF RIsZero(nodes[id].state_probabilities[s]) THEN Zero
               ELSE VSum(Vec([a \in 1..Len(nodes[id].children) |->
                          RMul(nodes[id].strategy[a][InfosetOf(nodes[id], s - 1)],
                               payouts(nodes[nodes[id].children[a]])[s])]))
    /\ (iter = 0 /\ Len(nodes) = 4 /\ nodes[Root].infosets = Singletons
                 /\ nodes[Root].state_probabilities = Uniform3)
         => nodes[Root].evs = QV(<<16, 13, 14>>, 6)

\* the upward pass of the second iteration has run on a tree whose root
\* reaches some states and not others
C8_SecondUpwardPass ==
  /\ pc = "update_strategy" /\ iter = 1 /\ Partitioned(nodes[Root])
  /\ \E s \in 1..Len(nodes[Root].state_probabilities) : RIsZero(nodes[Root].state_probabilities[s])
  /\ \E s \in 1..Len(nodes[Root].state_probabilities) : ~RIsZero(nodes[Root].state_probabilities[s])

\* the positive part of a column of regrets
PositivePart(r) == Vec([a \in 1..Len(r) |-> IF RLt(Zero, r[a]) THEN r[a] ELSE Zero])

\* C9: the column regret_match returns for a column r of regrets of a node
\* of A actions is uniform, 1/A, when no entry of r is positive, and
\* otherwise (r+ + EPSILON) / sum(r+ + EPSILON) with r+ the positive part.
C9_RegretMatchColumn ==
  pc = "done" =>
    \A i \in 1..Len(nodes[Root].infosets) :
      LET r == Col(nodes[Root].regrets, i)
          A == Len(nodes[Root].children)
          smoothed == Vec([a \in 1..A |-> RAdd(PositivePart(r)[a], EPSILON)])
      IN  Col(nodes[Root].strategy, i) =
            IF \A a \in 1..A : ~RLt(Zero, r[a])
            THEN Vec([a \in 1..A |-> RDiv(One, RNat(A))])
            ELSE Vec([a \in 1..A |-> RDiv(smoothed[a], VSum(smoothed))])

\* regret_match has run on two columns, one with a positive regret and a
\* negative one, the other without a positive regret
C9_BothCases ==
  /\ pc = "done" /\ Len(nodes[Root].infosets) = 2
  /\ RLt(Zero, nodes[Root].regrets[1][1]) /\ RLt(nodes[Root].regrets[2][1], Zero)
  /\ \A a \in 1..2 : ~RLt(Zero, nodes[Root].regrets[a][2])
  /\ RLt(nodes[Root].regrets[1][2], Zero)

\* C10: at a node with more than one action, every entry of a strategy
\* column whose regrets have a positive entry lies strictly between 0 and 1.
C10_InteriorEntries ==
  pc = "done" =>
    \A i \in 1..Len(nodes[Root].infosets) :
      (/\ Len(nodes[Root].children) > 1
       /\ \E a \in 1..Len(nodes[Root].children) : RLt(Zero, nodes[Root].regrets[a][i]))
        => \A a \in 1..Len(nodes[Root].children) :
             /\ RLt(Zero, nodes[Root].strategy[a][i])
             /\ RLt(nodes[Root].strategy[a][i], One)

\* C11: at every decision node whose infosets partition its states and
\* whose strategy columns sum to 1, expand_strategy gives state s the
\* strategy column of the information set that holds s, and the entries of
\* the expanded strategy at s sum to 1 over the actions.
C11_ExpandStrategy ==
  \A id \in Ids :
    (/\ IsAction(nodes[id]) /\ Partitioned(nodes[id])
     /\ \A i \in 1..Len(nodes[id].infosets) : REq(VSum(Col(nodes[id].strategy, i)), One))
      => \A s \in 1..Len(nodes[id].state_probabilities) :
           /\ \A a \in 1..Len(nodes[id].children) :
                expand_strategy(nodes[id])[a][s]
                  = nodes[id].strategy[a][InfosetOf(nodes[id], s - 1)]
           /\ REq(VSum(Vec([a \in 1..Len(nodes[id].children) |->
                              expand_strategy(nodes[id])[a][s]])), One)

\* a decision node with an information set of two states and, after an
\* update, a strategy that differs between two of its information sets
C11_SharedColumn ==
  \E id \in Ids :
    /\ IsAction(nodes[id]) /\ Partitioned(nodes[id]) /\ iter >= 1
    /\ Len(nodes[id].infosets[1]) = 2
    /\ nodes[id].strategy[1][1] # nodes[id].strategy[1][2]
    /\ expand_strategy(nodes[id])[1][nodes[id].infosets[1][1] + 1]
         = expand_strategy(nodes[id])[1][nodes[id].infosets[1][2] + 1]

\* C12: at every node the sum over the states of state_probabilities is at
\* most that sum at the root.
C12_ReachShrinks ==
  \A id \in Ids :
    RLe(VSum(nodes[id].state_probabilities), VSum(nodes[Root].state_probabilities))

\* after an iteration, a node two levels below the root whose reach is
\* positive and strictly below the root's
C12_DeepNodeReached ==
  /\ iter >= 1
  /\ \E id \in Ids : \E c \in Ids : \E g \in Ids :
       /\ id = Root /\ IsAction(nodes[id]) /\ IsAction(nodes[c])
       /\ \E a \in 1..Len(nodes[id].children) : nodes[id].children[a] = c
       /\ \E a \in 1..Len(nodes[c].children) : nodes[c].children[a] = g
       /\ RLt(Zero, VSum(nodes[g].state_probabilities))
       /\ RLt(VSum(nodes[g].state_probabilities), VSum(nodes[Root].state_probabilities))

\* C13: after the first full iteration on a well built tree, strategy
\* equals avg_strategy at every decision node.
C13_StrategyIsAverage ==
  (iter = 1 /\ pc = "update_probabilities" /\ WellBuilt(nodes)) =>
    \A id \in Ids : IsAction(nodes[id]) => nodes[id].strategy = nodes[id].avg_strategy

\* C14: update_strategy at a decision node whose iteration counter is t
\* replaces regrets by (regrets + cur_regret * pi_I) * t / (t + 1), with
\* cur_regret = (action_evs - infoset_ev(evs, pi)) * sign; after the first
\* update of the tree of Scenario U, regrets[a, i] is
\* (payout_a[i] - evs[i]) / 6.
C14_RegretUpdate ==
  /\ [][(pc = "update_strategy" /\ pc' # "panicked") =>
          \A id \in Ids :
            IsAction(nodes[id]) =>
              LET n    == nodes[id]
                  pi_I == infoset_probabilities(n, n.state_probabilities)
                  cur  == MScale(MSubV(action_evs(nodes, n),
                                       infoset_evs(n, n.evs, n.state_probabilities)),
                                 Q(n.sign, 1))
                  t    == RNat(n.iter_count)
              IN  nodes'[id].regrets
                    = MOver(MScale(MAdd(n.regrets, MMulV(cur, pi_I)), t), RAdd(t, One))]_vars
  /\ []((/\ iter = 1 /\ pc = "update_probabilities" /\ Len(nodes) = 4
         /\ nodes[Root].infosets = Singletons
         /\ nodes[Root].state_probabilities = Uniform3)
          => \A a \in 1..3 : \A i \in 1..3 :
               nodes[Root].regrets[a][i]
                 = RDiv(RSub(nodes[nodes[Root].children[a]].payouts[i], nodes[Root].evs[i]),
                        RNat(6)))

\* the first update of the tree of Scenario U has run, and left a regret
\* that is not zero
C14_ScenarioURegrets ==
  /\ iter = 1 /\ pc = "update_probabilities" /\ Len(nodes) = 4
  /\ nodes[Root].infosets = Singletons
  /\ nodes[Root].state_probabilities = Uniform3
  /\ nodes[Root].regrets[1][1] = Q(1, 18)

\* the entries of the matrix m as one sequence
Entries(m) == [k \in 1..(Len(m) * Cols(m)) |-> m[((k - 1) \div Cols(m)) + 1][((k - 1) % Cols(m)) + 1]]

\* m is k multiplied by one positive factor
Proportional(m, k) ==
  /\ \A x \in 1..Len(Entries(m)) : Entries(m)[x].sg = Entries(k)[x].sg
  /\ \A x \in 1..Len(Entries(m)) : \A y \in 1..Len(Entries(m)) :
       RMul(Entries(m)[x], Entries(k)[y]) = RMul(Entries(m)[y], Entries(k)[x])

\* C15: after the second update_strategy at a decision node, regrets is the
\* sum of the two weighted regrets cur_regret_j * pi_I,j multiplied by one
\* positive factor; the first weighted regret is twice the regrets the first
\* update stored.
C15_RunningMean ==
  [][(pc = "update_strategy" /\ pc' # "panicked" /\ iter = 1 /\ WellBuilt(nodes)) =>
       \A id \in Ids :
         IsAction(nodes[id]) =>
           Proportional(nodes'[id].regrets,
                        MAdd(MScale(nodes[id].regrets, RNat(2)),
                             MMulV(current_regret(nodes, nodes[id]),
                                   infoset_probabilities(nodes[id],
                                                         nodes[id].state_probabilities))))]_vars

\* C16: after the first full iteration, total_probabilities of every
\* decision node is the reach of its information sets in that iteration.
C16_TotalIsSumOfReach ==
  (iter = 1 /\ pc = "update_probabilities" /\ WellBuilt(nodes)) =>
    \A id \in Ids :
      IsAction(nodes[id]) =>
        nodes[id].total_probabilities
          = infoset_probabilities(nodes[id], nodes[id].state_probabilities)

\* C17: iter_count of every decision node is 1 plus the number of
\* update_strategy passes that have run on the root, whatever the reach of
\* the node; so it is 1 at construction, at least 1 always, and changed by
\* update_strategy alone.
C17_IterCount ==
  \A id \in Ids :
    IsAction(nodes[id]) =>
      /\ nodes[id].iter_count = iter + 1
      /\ nodes[id].iter_count >= 1

\* two iterations have run on a tree with a decision node below the root
\* that does not reach one of its states
C17_UnreachedNodeCounted ==
  /\ iter = 2
  /\ \E id \in Ids \ {Root} :
       /\ IsAction(nodes[id]) /\ nodes[id].iter_count = 3
       /\ \E s \in 1..Len(nodes[id].state_probabilities) :
            RIsZero(nodes[id].state_probabilities[s])

\* the pass called on the root of the tree ns
WholePass(pass, ns) ==
  CASE pass = "update_probabilities" -> update_probabilities(ns, Root)
    [] pass = "update_ev" -> update_ev(ns, Root)
    [] pass = "update_strategy" -> update_strategy(ns, Root)
    [] OTHER -> ns

\* node id and the nodes below it
RECURSIVE Subtree(_, _)
Subtree(ns, id) == {id} \cup UNION {Subtree(ns, c) : c \in Children(ns, id)}

\* the nodes above node id
Ancestors(ns, id) == {p \in 1..Len(ns) : p # id /\ id \in Subtree(ns, p)}

\* C18: within a pass, the call on a node has returned only if the calls on
\* all its children have; in update_ev the evs of a node whose call has
\* returned are those the whole pass leaves; in update_probabilities the
\* call on a child has begun only if the closure has set the child's reach,
\* and that reach is the one the whole pass leaves.
C18_ChildrenFirst ==
  LET whole == WholePass(pc, start)
  IN  \A id \in Ids :
        /\ Taken("return", id) => \A c \in Children(nodes, id) : Taken("return", c)
        /\ (pc = "update_ev" /\ Taken("return", id)) => nodes[id] = whole[id]
        /\ (pc = "update_probabilities" /\ id # Root /\ Taken("enter", id)) =>
             /\ Taken("set", id)
             /\ nodes[id].state_probabilities = whole[id].state_probabilities

\* in update_ev on the Kuhn tree, the call on one child of the root has
\* returned and the call on the other has not begun
C18_OneSubtreeDone ==
  /\ pc = "update_ev" /\ Len(nodes) = 9
  /\ Taken("return", nodes[Root].children[1])
  /\ ~Taken("enter", nodes[Root].children[2])

\* C19: when the call of a pass on the root has returned, the tree is the
\* one the pass leaves when it handles the children one after the other,
\* whatever the order in which the steps on the subtrees were taken; and a
\* step at a node reads no node outside that node's subtree and ancestors.
C19_OrderIrrelevant ==
  /\ Taken("return", Root) => nodes = WholePass(pc, start)
  /\ \A id \in Ids : \A kind \in {"enter", "set", "return"} :
       (kind = "set" => id # Root) =>
         Reads(pc, kind, id) \subseteq (Subtree(nodes, id) \cup Ancestors(nodes, id))

\* in update_probabilities on the Kuhn tree, the calls on the two children
\* of the root are both under way
C19_SideBySide ==
  /\ pc = "update_probabilities" /\ Len(nodes) = 9
  /\ \A a \in 1..2 : /\ Taken("enter", nodes[Root].children[a])
                     /\ ~Taken("return", nodes[Root].children[a])

TilesOf(b, t) ==
  {i \in 0..15 : Bit(b.occupied, i) = 1 /\ Bit(b.player, i) = (IF t = "X" THEN 1 ELSE 0)}

\* C21: a call of Board::get or Board::set returns Ok exactly when its index
\* is one of the tiles 0..BOARD_SIZE-1, and Err(OutOfBoundsError) for every
\* other index.
C21_BoundsChecked ==
  pc = "returned" =>
    /\ result.ok <=> input[2] < BOARD_SIZE
    /\ ~result.ok => result.value = "OutOfBoundsError"

\* C27: after any calls of Board::act on a board that was empty, only bits
\* 0..8 of occupied are set, X has as many tiles as O or one more, and it
\* is X's turn exactly when they have as many.
C27_ActKeepsBoard ==
  pc = "play" =>
    /\ board.occupied < 2 ^ BOARD_SIZE
    /\ Cardinality(TilesOf(board, "X")) - Cardinality(TilesOf(board, "O")) \in {0, 1}
    /\ (turn(board) = "X") <=>
         (Cardinality(TilesOf(board, "X")) = Cardinality(TilesOf(board, "O")))

\* the positions one move after those of F that are not finished
Successors(F) ==
  UNION {LET ch == children_of(p) IN {ch[k] : k \in 1..Len(ch)} :
           p \in {q \in F : winner(q) = "Empty"}}

\* the positions play reaches from those of F
RECURSIVE ReachableFrom(_)
ReachableFrom(F) == IF F = {} THEN {} ELSE F \cup ReachableFrom(Successors(F))

\* the minimax value of position p, given for each class of positions one
\* move after it the value in table; class gives the hash of a position
MinimaxStep(p, table, class) ==
  IF winner(p) = "X" THEN BOARD_SIZE - count_ones(p.occupied) + 1
  ELSE IF winner(p) = "O" THEN 0 - (BOARD_SIZE - count_ones(p.occupied) + 1)
  ELSE IF valid_moves(p) = << >> THEN 0
  ELSE LET ch == children_of(p)
           values == {table[class[ch[k]]] : k \in 1..Len(ch)}
       IN  IF count_ones(p.occupied) % 2 = 0
           THEN CHOOSE v \in values : \A w \in values : w <= v
           ELSE CHOOSE v \in values : \A w \in values : v <= w

\* C22: when a call of eval_recursive by the test has returned, the table
\* holds for every position play reaches from the one passed its minimax
\* value (that of a finished position, or the largest of its children's
\* when X is to move and the smallest when O is), and the call returned the
\* value of its position: 0 for the empty board, 3 for X on tile 8 and O on
\* tile 7; once the empty board is solved the table has 765 entries, one
\* for each class of positions reached from the empty board.
C22_Minimax ==
  (pc = "idle" /\ input # << >>) =>
    LET solved == \E k \in 1..Len(input) : input[k] = DefaultBoard
        reached == ReachableFrom({IF solved THEN DefaultBoard ELSE board})
        class == [p \in reached |-> invariant_hash(p)]
    IN  /\ class # << >>
        /\ \A p \in reached :
             /\ class[p] \in DOMAIN value_table
             /\ value_table[class[p]] = MinimaxStep(p, value_table, class)
        /\ result = value_table[class[board]]
        /\ board = DefaultBoard => result = 0
        /\ board = TestBoard => result = 3
        /\ solved =>
             /\ Cardinality(DOMAIN value_table) = 765
             /\ DOMAIN value_table = {class[p] : p \in reached}

\* the test's two calls have returned: the empty board, then X on 8, O on 7
C22_TestSolved == pc = "idle" /\ input = <<DefaultBoard, TestBoard>> /\ result = 3

\* board b seen through transformation t: its tile x is tile
\* TRANSFORMATIONS[t][x] of b
Transformed(b, t) ==
  BoardFrom([x \in 0..(BOARD_SIZE - 1) |->
               tile_hash(get(b, TRANSFORMATIONS[t][x + 1]).value)], 0)

\* the board whose tiles, first to last, are the digits of h in base 3
Decoded(h) ==
  BoardFrom([x \in 0..(BOARD_SIZE - 1) |-> (h \div (3 ^ (BOARD_SIZE - 1 - x))) % 3], 0)

\* the transformations are closed under composition
Closed ==
  \A s, t \in 1..Len(TRANSFORMATIONS) : \E u \in 1..Len(TRANSFORMATIONS) :
    \A x \in 1..BOARD_SIZE :
      TRANSFORMATIONS[u][x] = TRANSFORMATIONS[s][TRANSFORMATIONS[t][x] + 1]

\* C23: invariant_hash is 0 on the empty board and the same on the eight
\* transformed boards of a board; and it tells boards apart up to the
\* transformations: the hash read as nine digits in base 3 is one of the
\* transformed boards of the board hashed, so that two boards with one
\* hash are transformed boards of one board and, the transformations being
\* closed under composition, of each other.
C23_HashOfClass ==
  pc = "returned" =>
    /\ board = DefaultBoard => result = 0
    /\ \A t \in 1..Len(TRANSFORMATIONS) : invariant_hash(Transformed(board, t)) = result
    /\ \E t \in 1..Len(TRANSFORMATIONS) : Decoded(result) = Transformed(board, t)
    /\ Closed

\* the hash of X on tile 6 and O on tile 7 is that of X on tile 8 and O
\* on tile 7, and not the number the board gives as it stands
C23_MirroredBoards ==
  /\ pc = "returned"
  /\ board = [occupied |-> 192, player |-> 64]
  /\ result = invariant_hash([occupied |-> 384, player |-> 256])
  /\ result # invariant_hash_plain(board)

\* the place of item v in the list items
PlaceIn(items, v) == CHOOSE a \in 1..Len(items) : items[a] = v

\* C24: enumerate_combos(items, k), for n distinct items and 1 <= k <= n,
\* returns choose(n, k) = n! / (k! (n - k)!) combinations; each has k items
\* of the list in the order they have in the list, and no two are equal.
C24_AllCombos ==
  pc = "returned" =>
    LET items == input[1]
        k == input[2]
        n == Len(items)
    IN  /\ Len(result) = choose(n, k)
        /\ choose(n, k) * (factorial(k) * factorial(n - k)) = factorial(n)
        /\ \A c \in 1..Len(result) :
             /\ Len(result[c]) = k
             /\ \A j \in 1..k : \E a \in 1..n : items[a] = result[c][j]
             /\ \A j \in 1..(k - 1) :
                  PlaceIn(items, result[c][j]) < PlaceIn(items, result[c][j + 1])
        /\ \A c, d \in 1..Len(result) : c # d => result[c] # result[d]

\* the six pairs of four items, from the first two to the last two
C24_PairsOfFour ==
  /\ pc = "returned"
  /\ input = <<<<0, 1, 2, 3>>, 2>>
  /\ result = << <<0, 1>>, <<0, 2>>, <<0, 3>>, <<1, 2>>, <<1, 3>>, <<2, 3>> >>

\* the name of the class of two cards: a pair, or the higher rank before
\* the lower with s for one suit and o for two
ClassName(c1, c2) ==
  LET hi == Max(c1 \div 4, c2 \div 4)
      lo == Min(c1 \div 4, c2 \div 4)
  IN  IF hi = lo THEN <<RANK_TO_CHAR[hi + 1], RANK_TO_CHAR[lo + 1]>>
      ELSE <<RANK_TO_CHAR[hi + 1], RANK_TO_CHAR[lo + 1],
             IF c1 % 4 = c2 % 4 THEN "s" ELSE "o">>

\* C25: for cards i < j, index_to_str(get_index(j, i)) is Hand(i, j) as
\* displayed, the name of the class of the two cards; get_index(1, 0) = 0
\* and get_index(51, 50) = 168.
C25_IndexNamesHand ==
  /\ (pc = "named" /\ input[2] < input[1]) =>
       /\ result = to_string(input[2], input[1])
       /\ result = ClassName(input[2], input[1])
  /\ (pc = "indexed" /\ input = <<1, 0>>) => result = 0
  /\ (pc = "indexed" /\ input = <<51, 50>>) => result = 168

\* the ace and the two of one suit, the ace first, are named A2s
C25_AceTwoSuited == pc = "named" /\ input = <<48, 0>> /\ result = <<"A", "2", "s">>

\* C28: get_index gives two cards the same index in either order, and the
\* index of two cards in ascending order is named by index_to_str as the
\* class of the two cards.
C28_OrderFree ==
  /\ pc = "indexed" => result = get_index(input[2], input[1])
  /\ (pc = "named" /\ input[1] < input[2]) => result = ClassName(input[1], input[2])

\* C26: a step of a pass leaves every field of every node as it was, but:
\* update_probabilities the state_probabilities of the nodes below the root
\* and the total_probabilities of a decision node where they sum to zero;
\* update_ev the evs of the decision nodes; update_strategy the regrets,
\* strategy, avg_strategy, total_probabilities and iter_count of the
\* decision nodes.  So name, infosets, sign, children, the payouts of a
\* terminal and the reach of the root never change, and update_strategy
\* changes no state_probabilities, evs or payouts.
C26_FrameOfPasses ==
  [][\A id \in Ids :
       LET old == nodes[id]
           new == nodes'[id]
       IN  /\ (id = Root \/ pc # "update_probabilities") =>
                new.state_probabilities = old.state_probabilities
           /\ IF ~IsAction(old)
              THEN [new EXCEPT !.state_probabilities = old.state_probabilities] = old
              ELSE CASE pc = "update_probabilities" ->
                          /\ [new EXCEPT !.state_probabilities = old.state_probabilities,
                                         !.total_probabilities = old.total_probabilities] = old
                          /\ ~RIsZero(VSum(old.total_probabilities)) =>
                               new.total_probabilities = old.total_probabilities
                     [] pc = "update_ev" -> [new EXCEPT !.evs = old.evs] = old
                     [] pc = "update_strategy" ->
                          [new EXCEPT !.regrets = old.regrets,
                                      !.strategy = old.strategy,
                                      !.avg_strategy = old.avg_strategy,
                                      !.total_probabilities = old.total_probabilities,
                                      !.iter_count = old.iter_count] = old
                     [] OTHER -> new = old]_vars

\* the second downward pass has run over a decision node whose
\* total_probabilities it found set and whose reach it wrote anew
C26_TotalsKept ==
  /\ pc = "update_ev" /\ iter = 1
  /\ \E id \in Ids : /\ id # Root /\ IsAction(nodes[id])
                     /\ ~RIsZero(VSum(nodes[id].total_probabilities))
                     /\ nodes[id].state_probabilities # start[id].state_probabilities
====
